---- MODULE Spec2Model ----
(***************************************************************************)
(* qfind: trigram index, feed-forward Bloom pair, path trie, posting-list  *)
(* codec, LSM update queue and query resolver, modelled from the C source. *)
(*                                                                         *)
(* C strings are tuples of byte values; the terminating NUL is implicit.   *)
(* The repository holds several definitions of some symbols; the model     *)
(* names the file of each one it translates, and the variable `build`      *)
(* records which definition of a duplicated symbol is linked.              *)
(***************************************************************************)
EXTENDS Integers, Sequences, FiniteSets, TLC

VARIABLES
    build,          \* which definitions are linked: [extract, search, bloom]
    index,          \* qfind_index_t
    realtime_ctx,   \* static realtime_ctx of index_updates.c
    main_pc,        \* the thread running qfind_build_index
    commit_pc,      \* position of the thread inside qfind_commit_updates
    commit_local,   \* its locals: the swapped-out batches adds, dels
    query,          \* query_ctx_t of the last qfind_search and its return
    hist,           \* history of the run (what was added, enqueued, sealed)
    codec,          \* posting-list codec under test (SpecCodec)
    twin,           \* a pair of indexes fed the same calls (SpecTwin)
    ranking,        \* the scored candidates of a search and their cut (SpecRank)
    meta_block,     \* the size and the fill of file_metadata (SpecMeta)
    update_thread,  \* the background worker and stop_realtime_updates
    io_context,     \* io_context_t and the ring behind it (SpecIo)
    thread_data     \* the workers' local results and their merge (SpecMerge)

vars == <<build, index, realtime_ctx, main_pc, commit_pc, commit_local,
          query, hist, codec, twin, ranking, meta_block, update_thread,
          io_context, thread_data>>

-----------------------------------------------------------------------------
(* Bounds of the model *)

PrimaryBytes == 4       \* primary_size of the Bloom pair, in bytes
SecondaryBytes == 2     \* secondary_size, in bytes
MaxFiles == 2           \* cap on index.num_files
MaxCommits == 1         \* cap on qfind_commit_updates calls
MaxId == 4              \* largest file id of a list given to the codec
MaxLen == 3             \* longest posting list given to the codec
MaxScored == 3          \* scored candidates handed to the ranking
MaxWalked == 1025       \* regular files the initial build walks (SpecMeta)
MaxEvents == 2          \* create events after the build (SpecMeta)
MaxAdds == 3            \* add_file_to_index calls on the paired indexes

(* Program constants *)

MAX_HASH_FUNCS == 8
TRIGRAM_SIZE == 3
META_GROW_FACTOR == 2
EVENT_GROW_STEP == 1000     \* the literal 1000 of handle_file_event
INITIAL_META_CAPACITY == 1024
TRIE_PATH_COMPRESS == 255
UINT8_MAX == 255
MAX_RESULTS == 10000
RESULTS_PER_THREAD == 512
WORKER_THREADS == 16
S_IRUSR == 256
S_IRGRP == 32
S_IROTH == 4
FILE_ID_BYTES == 8

-----------------------------------------------------------------------------
(* Generic helpers *)

Min(a, b) == IF a < b THEN a ELSE b
Max(a, b) == IF a > b THEN a ELSE b
Take(s, n) == SubSeq(s, 1, Min(n, Len(s)))
Drop(s, n) == SubSeq(s, n + 1, Len(s))
Range(s) == {s[i] : i \in 1..Len(s)}

\* s[i] of a C string, i counted from 0; the byte at Len(s) is the NUL.
\* A read outside the string and its terminator yields the byte `oob`.
CharAt(s, i, oob) ==
    IF i >= 0 /\ i < Len(s) THEN s[i + 1]
    ELSE IF i = Len(s) THEN 0
    ELSE oob

RECURSIVE Pow2(_)
Pow2(n) == IF n <= 0 THEN 1 ELSE 2 * Pow2(n - 1)

\* bit test: (x & mask) != 0 for a one-bit mask
BitSet(x, mask) == (x \div mask) % 2 = 1

\* the elements of a finite set of integers in ascending order
RECURSIVE Ascending(_)
Ascending(S) ==
    IF S = {} THEN <<>>
    ELSE LET m == CHOOSE x \in S : \A y \in S : x <= y
         IN <<m>> \o Ascending(S \ {m})

-----------------------------------------------------------------------------
(* Trigram extraction *)

\* memcpy of three bytes into a zeroed uint32_t (little endian)
PackTrigram(b0, b1, b2) == b0 + 256 * b1 + 65536 * b2
TrigramBytes(t) == <<t % 256, (t \div 256) % 256, (t \div 65536) % 256>>

extract_trigrams_window(str) ==
    IF Len(str) < TRIGRAM_SIZE THEN <<>>
    ELSE [i \in 1..(Len(str) - TRIGRAM_SIZE + 1) |->
            PackTrigram(str[i], str[i + 1], str[i + 2])]

extract_trigrams_stub(text) == <<>>

\* the definition the callers of qfind.c and search.c are linked against
extract_trigrams(b, text) ==
    IF b.extract = "stub" THEN extract_trigrams_stub(text)
    ELSE extract_trigrams_window(text)

-----------------------------------------------------------------------------
(* Feed-forward Bloom pair (ffbloom.c) *)

\* XXH3_64bits_withSeed is a library hash; a fixed mixing function stands
\* for it.
XXH3_64bits_withSeed(item, seed) ==
    ((item % 8191) * (2 * seed + 1) * 31) + (seed * 7) + (item \div 8191)

\* idx + 0xA5A5A5A5: the seed offset that tells the secondary hashes from
\* the primary ones; its low byte serves the stand-in hash
SCORE_THRESHOLD == 25   \* 0.25f, in hundredths
SecondarySeed == 165

primary_hash(item, idx) == XXH3_64bits_withSeed(item, idx)
secondary_hash(item, idx) == XXH3_64bits_withSeed(item, idx + SecondarySeed)

ffbloom_create(primary_size, secondary_size) ==
    [primary |-> {}, secondary |-> {},
     primary_size |-> primary_size, secondary_size |-> secondary_size,
     num_hash_funcs |-> MAX_HASH_FUNCS]

PrimaryBitsOf(bloom, item) ==
    {primary_hash(item, i) % (bloom.primary_size * 8) :
        i \in 0..(bloom.num_hash_funcs - 1)}

SecondaryBitsOf(bloom, item) ==
    {secondary_hash(item, i) % (bloom.secondary_size * 8) :
        i \in 0..(bloom.num_hash_funcs - 1)}

ffbloom_add(bloom, item) ==
    [bloom EXCEPT !.primary = @ \cup PrimaryBitsOf(bloom, item)]

\* a check that is content with one set bit instead of all of them
ffbloom_check_any_bit(bloom, item) ==
    PrimaryBitsOf(bloom, item) \cap bloom.primary # {}

ffbloom_check(bloom, item) == PrimaryBitsOf(bloom, item) \subseteq bloom.primary

\* an update that stores the bits of the item in place of those set before
ffbloom_update_secondary_rewrites(bloom, item) ==
    [bloom EXCEPT !.secondary = SecondaryBitsOf(bloom, item)]

ffbloom_update_secondary(bloom, item) ==
    [bloom EXCEPT !.secondary = @ \cup SecondaryBitsOf(bloom, item)]

\* the filter after a call of ffbloom_check: ffbloom.c leaves it alone, the
\* definition in unnamed/part_001 feeds a hit forward into the secondary
ffbloom_check_effect(b, bloom, item) ==
    IF b.bloom = "part_001" /\ ffbloom_check(bloom, item)
    THEN ffbloom_update_secondary(bloom, item)
    ELSE bloom

\* the patterns whose secondary bits are all set, in order, at most MAX_RESULTS
ffbloom_get_candidates(bloom, patterns) ==
    Take(SelectSeq(patterns,
            LAMBDA p : SecondaryBitsOf(bloom, p) \subseteq bloom.secondary),
         MAX_RESULTS)

-----------------------------------------------------------------------------
(* Path trie (qfind.c).  A node is addressed by the child indices that     *)
(* lead to it from the root; calloc zeroes a new node.                     *)

TrieNode(key) == [key |-> key, is_end |-> FALSE, file_id |-> 0, count |-> 0]

EmptyTrie == (<<>> :> TrieNode(0))

ChildKeys(trie, node) ==
    {a[Len(a)] : a \in {x \in DOMAIN trie :
        Len(x) = Len(node) + 1 /\ SubSeq(x, 1, Len(node)) = node}}

\* while (*p == *(p+count) && count < UINT8_MAX) count++;
RECURSIVE RunCountFrom(_, _, _)
RunCountFrom(path, p, count) ==
    IF CharAt(path, p, 0) = CharAt(path, p + count, 0) /\ count < UINT8_MAX
    THEN RunCountFrom(path, p, count + 1)
    ELSE count

WithChild(trie, child, key) ==
    IF child \in DOMAIN trie THEN trie ELSE (child :> TrieNode(key)) @@ trie

RECURSIVE trie_walk_insert(_, _, _, _, _)
trie_walk_insert(trie, current, path, p, id) ==
    IF CharAt(path, p, 0) = 0
    THEN [trie EXCEPT ![current] = [@ EXCEPT !.is_end = TRUE, !.file_id = id]]
    ELSE IF CharAt(path, p, 0) = CharAt(path, p + 1, 0)
    THEN LET count == RunCountFrom(path, p, 1)
             child == Append(current, TRIE_PATH_COMPRESS)
             t1 == WithChild(trie, child, TRIE_PATH_COMPRESS)
             t2 == [t1 EXCEPT ![child] = [@ EXCEPT !.count = count]]
         IN trie_walk_insert(t2, child, path, p + count, id)
    ELSE LET c == CharAt(path, p, 0)
             child == Append(current, c)
         IN trie_walk_insert(WithChild(trie, child, c), child, path, p + 1, id)

insert_path_to_trie(root, path, id) == trie_walk_insert(root, <<>>, path, 0, id)

\* search_trie of qfind.c; results is the buffer filled so far, oob the byte
\* a read outside the query string yields (query[-1] when pos is 0)
RECURSIVE search_trie(_, _, _, _, _, _, _)
RECURSIVE search_trie_children(_, _, _, _, _, _, _, _)
search_trie(trie, node, q, pos, results, max_results, oob) ==
    IF Len(results) >= max_results THEN results
    ELSE LET n == trie[node]
             next ==
                IF n.key = TRIE_PATH_COMPRESS
                THEN IF \A j \in 0..(n.count - 1) :
                            CharAt(q, pos + j, oob) = CharAt(q, pos + j - 1, oob)
                     THEN pos + n.count
                     ELSE -1
                ELSE IF n.key # 0
                THEN IF pos >= Len(q) \/ n.key # CharAt(q, pos, oob)
                     THEN -1
                     ELSE pos + 1
                ELSE pos
         IN IF next = -1 THEN results
            ELSE search_trie_children(trie, node,
                    Ascending(ChildKeys(trie, node)), q, next,
                    IF n.is_end /\ next = Len(q)
                    THEN Append(results, n.file_id) ELSE results,
                    max_results, oob)
search_trie_children(trie, node, keys, q, pos, results, max_results, oob) ==
    IF keys = <<>> THEN results
    ELSE search_trie_children(trie, node, Tail(keys), q, pos,
            search_trie(trie, Append(node, Head(keys)), q, pos, results,
                        max_results, oob),
            max_results, oob)

\* while (pos + run_length < strlen(query) && query[pos] == query[pos + run_length]
\*        && run_length < node->count) run_length++;
RECURSIVE QueryRunFrom(_, _, _, _)
QueryRunFrom(q, pos, run_length, count) ==
    IF pos + run_length < Len(q)
       /\ CharAt(q, pos, 0) = CharAt(q, pos + run_length, 0)
       /\ run_length < count
    THEN QueryRunFrom(q, pos, run_length + 1, count)
    ELSE run_length

\* search_trie of search.c
RECURSIVE search_c_search_trie(_, _, _, _, _, _, _)
RECURSIVE search_c_search_trie_children(_, _, _, _, _, _, _, _)
search_c_search_trie(trie, node, q, pos, results, max_results, oob) ==
    LET n == trie[node]
        next ==
            IF n.key = TRIE_PATH_COMPRESS /\ n.count > 1
            THEN IF CharAt(q, pos, oob) = CharAt(q, pos + 1, oob)
                    /\ QueryRunFrom(q, pos, 1, n.count) = n.count
                 THEN pos + n.count
                 ELSE -1
            ELSE IF n.key # TRIE_PATH_COMPRESS
            THEN IF pos >= Len(q) \/ n.key # CharAt(q, pos, oob)
                 THEN -1
                 ELSE pos + 1
            ELSE pos
    IN IF next = -1 THEN results
       ELSE IF next = Len(q) /\ n.is_end
       THEN IF Len(results) < max_results
            THEN Append(results, n.file_id) ELSE results
       ELSE search_c_search_trie_children(trie, node,
                Ascending(ChildKeys(trie, node)), q, next, results,
                max_results, oob)
search_c_search_trie_children(trie, node, keys, q, pos, results, max_results, oob) ==
    IF keys = <<>> THEN results
    ELSE search_c_search_trie_children(trie, node, Tail(keys), q, pos,
            search_c_search_trie(trie, Append(node, Head(keys)), q, pos,
                                 results, max_results, oob),
            max_results, oob)

-----------------------------------------------------------------------------
(* Entropy coder.  zstd is a library; a lossless run-length frame stands   *)
(* for it: a magic byte, then (run, byte) pairs.                           *)

RECURSIVE HeadRun(_, _)
HeadRun(src, n) ==
    IF n < Len(src) /\ n < UINT8_MAX /\ src[n + 1] = src[1]
    THEN HeadRun(src, n + 1) ELSE n

RECURSIVE RunEncode(_)
RunEncode(src) ==
    IF src = <<>> THEN <<>>
    ELSE LET n == HeadRun(src, 1)
         IN <<n, src[1]>> \o RunEncode(Drop(src, n))

RECURSIVE RunDecode(_)
RunDecode(body) ==
    IF Len(body) < 2 THEN <<>>
    ELSE [i \in 1..body[1] |-> body[2]] \o RunDecode(Drop(body, 2))

ZSTD_compressBound(srcSize) == 2 * srcSize + 64

\* [err, out]: err stands for ZSTD_isError of the returned size
ZSTD_compress(dstCapacity, src) ==
    LET frame == <<40>> \o RunEncode(src)
    IN IF Len(frame) > dstCapacity
       THEN [err |-> TRUE, out |-> <<>>]
       ELSE [err |-> FALSE, out |-> frame]

ZSTD_decompress(dstCapacity, frame) ==
    IF Len(frame) = 0 THEN [err |-> FALSE, out |-> <<>>]
    ELSE IF frame[1] # 40 \/ Len(frame) % 2 = 0
       \/ \E i \in 1..((Len(frame) - 1) \div 2) : frame[2 * i] = 0
    THEN [err |-> TRUE, out |-> <<>>]
    ELSE LET out == RunDecode(Tail(frame))
         IN IF Len(out) > dstCapacity
            THEN [err |-> TRUE, out |-> <<>>]
            ELSE [err |-> FALSE, out |-> out]

\* n file ids as little-endian bytes (file_id_t is 8 bytes wide)
RECURSIVE IdBytes(_, _)
IdBytes(id, width) ==
    IF width = 0 THEN <<>> ELSE <<id % 256>> \o IdBytes(id \div 256, width - 1)

RECURSIVE BytesToId(_)
BytesToId(bytes) ==
    IF bytes = <<>> THEN 0 ELSE bytes[1] + 256 * BytesToId(Tail(bytes))

Zeros(n) == [i \in 1..n |-> 0]

-----------------------------------------------------------------------------
(* The compressed blob: a malloc'ed buffer of `cap` bytes of which `data`  *)
(* holds the regions written so far; every other byte is uninitialised.    *)

NullBlob == [alloc |-> FALSE, cap |-> 0, data |-> {}]

FreshBlob(total_size) == [alloc |-> TRUE, cap |-> total_size, data |-> {}]

WriteBlob(blob, offset, bytes) ==
    [blob EXCEPT !.data =
        {r \in @ : r.offset # offset} \cup {[offset |-> offset, bytes |-> bytes]}]

\* [init, bytes]: init is FALSE when the slice holds a byte never written
ReadBlob(blob, offset, size) ==
    IF size = 0 THEN [init |-> TRUE, bytes |-> <<>>]
    ELSE IF \E r \in blob.data : r.offset = offset /\ Len(r.bytes) >= size
    THEN LET r == CHOOSE x \in blob.data :
                    x.offset = offset /\ Len(x.bytes) >= size
         IN [init |-> TRUE, bytes |-> Take(r.bytes, size)]
    ELSE [init |-> FALSE, bytes |-> <<>>]

-----------------------------------------------------------------------------
(* Golomb-Rice coding of posting-list deltas: the encoder of the inverted  *)
(* index (golomb_encode_scalar) and the decoder of the search workers      *)
(* (gr_decode_next), both at byte level.                                   *)

\* (uint8_t)(log2(avg) + 0.5): the largest n with avg >= 2^(n - 1/2)
RECURSIVE Log2Round(_, _)
Log2Round(avg, n) ==
    IF 2 * avg * avg >= Pow2(2 * (n + 1)) THEN Log2Round(avg, n + 1) ELSE n

RECURSIVE SumSeq(_)
SumSeq(s) == IF s = <<>> THEN 0 ELSE s[1] + SumSeq(Tail(s))

calculate_golomb_param(deltas) ==
    IF Len(deltas) = 0 THEN 4
    ELSE Log2Round(Max(1, SumSeq(deltas) \div Len(deltas)), 0)

RECURSIVE golomb_encode_scalar(_, _)
golomb_encode_scalar(deltas, k) ==
    IF deltas = <<>> THEN <<>>
    ELSE LET q == deltas[1] \div Pow2(k)
             r == deltas[1] % Pow2(k)
         IN [i \in 1..q |-> 255] \o <<r % 256>>
            \o golomb_encode_scalar(Tail(deltas), k)

\* prev = 0; deltas[j] -= prev; prev = temp
DeltaEncode(sorted) ==
    [j \in 1..Len(sorted) |-> sorted[j] - (IF j = 1 THEN 0 ELSE sorted[j - 1])]

\* while (remaining > 0 && *input == 0xFF) { q += 8; input++; remaining--; }
RECURSIVE SkipFF(_, _)
SkipFF(input, q) ==
    IF Len(input) > 0 /\ input[1] = 255
    THEN SkipFF(Tail(input), q + 8)
    ELSE [input |-> input, q |-> q]

\* while (val & 0x80) { q++; val <<= 1; } on a uint8_t
RECURSIVE LeadingOnes(_, _)
LeadingOnes(val, q) ==
    IF val >= 128 THEN LeadingOnes((2 * val) % 256, q + 1)
    ELSE [val |-> val, q |-> q]

\* one call of gr_decode_next for k <= 8: [value, input]; value -1 at the end
gr_decode_next(k, input) ==
    LET s == SkipFF(input, 0)
    IN IF Len(s.input) = 0 THEN [value |-> -1, input |-> <<>>]
       ELSE LET l == LeadingOnes(s.input[1], s.q)
                r == l.val \div Pow2(8 - k)
            IN [value |-> l.q * Pow2(k) + (r % Pow2(k)),
                input |-> Tail(s.input)]

\* the decode loop of search_worker: prefix sums of the decoded deltas, up
\* to the first id that is not below num_files
RECURSIVE gr_decode_ids(_, _, _, _)
gr_decode_ids(k, input, prev_id, num_files) ==
    LET d == gr_decode_next(k, input)
    IN IF d.value < 0 THEN <<>>
       ELSE IF prev_id + d.value >= num_files THEN <<>>
       ELSE <<prev_id + d.value>>
            \o gr_decode_ids(k, d.input, prev_id + d.value, num_files)

\* if (seen[file_id]) continue; seen[file_id] = true;
RECURSIVE FirstOccurrences(_, _)
FirstOccurrences(ids, seen) ==
    IF ids = <<>> THEN <<>>
    ELSE IF ids[1] \in seen THEN FirstOccurrences(Tail(ids), seen)
    ELSE <<ids[1]>> \o FirstOccurrences(Tail(ids), seen \cup {ids[1]})

-----------------------------------------------------------------------------
(* The index (qfind.c) *)

NewEntry(t) == [trigram |-> t, num_files |-> 0, offset |-> 0, size |-> 0]

qfind_init ==
    [bloom |-> ffbloom_create(PrimaryBytes, SecondaryBytes),
     entries |-> <<>>,
     compressed_data |-> NullBlob,
     compressed_size |-> 0,
     meta_capacity |-> 0,
     trie_root |-> EmptyTrie,
     file_metadata |-> <<>>,
     num_files |-> 0,
     index_lock |-> "unlocked"]

\* index of the first entry holding trigram t, 0 when there is none
FindEntry(entries, t) ==
    IF \E j \in 1..Len(entries) : entries[j].trigram = t
    THEN CHOOSE j \in 1..Len(entries) :
            /\ entries[j].trigram = t
            /\ \A i \in 1..(j - 1) : entries[i].trigram # t
    ELSE 0

\* the loop of add_file_to_index over the extracted trigrams
RECURSIVE add_trigrams(_, _, _)
add_trigrams(idx, trigrams, i) ==
    IF i > Len(trigrams) THEN idx
    ELSE LET t == trigrams[i]
             j == FindEntry(idx.entries, t)
             grown == IF j = 0 THEN Append(idx.entries, NewEntry(t))
                      ELSE idx.entries
             at == IF j = 0 THEN Len(grown) ELSE j
         IN add_trigrams(
              [idx EXCEPT !.bloom = ffbloom_add(@, t),
                          !.entries = [grown EXCEPT ![at].num_files = @ + 1]],
              trigrams, i + 1)

\* add_file_to_index of qfind.c with every allocation succeeding
add_file_to_index(b, idx, path, id) ==
    add_trigrams(
        [idx EXCEPT !.trie_root = insert_path_to_trie(@, path, id)],
        extract_trigrams(b, path), 1)

\* compress_posting_lists of qfind.c in its three stages
RECURSIVE LayoutFrom(_, _, _)
LayoutFrom(entries, i, total_size) ==
    IF i > Len(entries) THEN entries
    ELSE LET sz == ZSTD_compressBound(entries[i].num_files * FILE_ID_BYTES)
         IN LayoutFrom([entries EXCEPT ![i].offset = total_size, ![i].size = sz],
                       i + 1, total_size + sz)

TotalSize(entries) ==
    IF entries = <<>> THEN 0
    ELSE entries[Len(entries)].offset + entries[Len(entries)].size

cpl_layout(idx) == [idx EXCEPT !.entries = LayoutFrom(@, 1, 0)]

cpl_alloc(idx) ==
    [idx EXCEPT !.compressed_data = FreshBlob(TotalSize(idx.entries)),
                !.compressed_size = TotalSize(idx.entries)]

\* the second loop: every list is compressed from a zeroed dummy buffer
RECURSIVE cpl_fill_from(_, _)
cpl_fill_from(idx, i) ==
    IF i > Len(idx.entries) THEN idx
    ELSE LET e == idx.entries[i]
             dummy_data == Zeros(e.num_files * FILE_ID_BYTES)
             c == ZSTD_compress(e.size, dummy_data)
         IN IF c.err THEN idx
            ELSE cpl_fill_from(
                   [idx EXCEPT
                      !.compressed_data = WriteBlob(@, e.offset, c.out),
                      !.entries = [@ EXCEPT ![i].size = Len(c.out)]],
                   i + 1)

cpl_fill(idx) == cpl_fill_from(idx, 1)

compress_posting_lists(idx) == cpl_fill(cpl_alloc(cpl_layout(idx)))

-----------------------------------------------------------------------------
(* Permission predicate (search.c) *)

check_file_permission(meta, user_id, group_id) ==
    LET mode == meta.permissions
        file_uid == meta.permissions \div 65536
        file_gid == (meta.permissions \div 256) % 256
    IN \/ user_id = 0
       \/ BitSet(mode, S_IROTH)
       \/ (file_uid = user_id /\ BitSet(mode, S_IRUSR))
       \/ (file_gid = group_id /\ BitSet(mode, S_IRGRP))

-----------------------------------------------------------------------------
(* qfind_search of qfind.c *)

\* for (i..) if (!ffbloom_check(..)) return 0;  [pass, bloom]
RECURSIVE bloom_precheck(_, _, _, _, _)
bloom_precheck(b, bloom, trigrams, i, update) ==
    IF i > Len(trigrams) THEN [pass |-> TRUE, bloom |-> bloom]
    ELSE IF ~ffbloom_check(bloom, trigrams[i])
    THEN [pass |-> FALSE, bloom |-> bloom]
    ELSE LET b1 == ffbloom_check_effect(b, bloom, trigrams[i])
             b2 == IF update THEN ffbloom_update_secondary(b1, trigrams[i])
                   ELSE b1
         IN bloom_precheck(b, b2, trigrams, i + 1, update)

\* What ZSTD_decompress is handed for an entry: [fault, init, bytes].
\* fault: the source pointer is NULL + offset and size bytes are read from it.
EntrySlice(idx, e) ==
    IF ~idx.compressed_data.alloc
    THEN [fault |-> e.size > 0, init |-> TRUE, bytes |-> <<>>]
    ELSE LET r == ReadBlob(idx.compressed_data, e.offset, e.size)
         IN [fault |-> FALSE, init |-> r.init, bytes |-> r.bytes]

\* process_posting_list: the destination is mapped PROT_READ, so a
\* decompression that produces output faults on its first store; one that
\* fails or produces nothing returns with no candidate added.  `garbage`
\* is what decompressing uninitialised bytes comes to: <<>> for an error.
process_posting_list(idx, e, garbage) ==
    LET s == EntrySlice(idx, e)
        d == ZSTD_decompress(e.num_files * FILE_ID_BYTES, s.bytes)
    IN IF s.fault THEN "SIGSEGV"
       ELSE IF ~s.init THEN (IF garbage = <<>> THEN "return" ELSE "SIGSEGV")
       ELSE IF d.err \/ Len(d.out) = 0 THEN "return"
       ELSE "SIGSEGV"

RECURSIVE process_candidates(_, _, _, _)
process_candidates(idx, candidates, i, garbage) ==
    IF i > Len(candidates) THEN "return"
    ELSE LET j == FindEntry(idx.entries, candidates[i])
         IN IF j # 0 /\ process_posting_list(idx, idx.entries[j], garbage) = "SIGSEGV"
            THEN "SIGSEGV"
            ELSE process_candidates(idx, candidates, i + 1, garbage)

Returned(ret, results, bloom) ==
    [status |-> "returned", ret |-> ret, results |-> results, bloom |-> bloom]

\* [status, ret, results, bloom].  No posting list ever yields a file
\* candidate (process_posting_list returns only when nothing was stored), so
\* the scoring loop runs over no candidate and num_results is MIN(0, max).
qfind_c_qfind_search(b, idx, q, user_id, group_id, max_results, hz) ==
    LET query_trigrams == extract_trigrams(b, q)
        pre == bloom_precheck(b, idx.bloom, query_trigrams, 1, FALSE)
        candidates == ffbloom_get_candidates(pre.bloom, query_trigrams)
        trie == search_trie(idx.trie_root, <<>>, q, 0, <<>>, max_results, hz.oob)
    IN IF max_results = 0 THEN Returned(-22, <<>>, idx.bloom)
       ELSE IF Len(query_trigrams) = 0 THEN Returned(Len(trie), trie, idx.bloom)
       ELSE IF ~pre.pass THEN Returned(0, <<>>, pre.bloom)
       ELSE IF process_candidates(idx, candidates, 1, hz.garbage) = "SIGSEGV"
       THEN [status |-> "SIGSEGV", ret |-> 0, results |-> <<>>, bloom |-> pre.bloom]
       ELSE Returned(0, <<>>, pre.bloom)

-----------------------------------------------------------------------------
(* qfind_search of search.c and its workers *)

\* seen[file_id] is an 8-byte slot of a num_files-byte allocation
SeenInBounds(file_id, num_files) == FILE_ID_BYTES * (file_id + 1) <= num_files

\* the ids one posting list contributes to a worker, after the seen filter,
\* file_matches_all_trigrams and check_file_permission: [crash, ids, seen].
\* hz.stale: the seen[] slots past the allocation read as set; racing: other
\* workers use the shared ZSTD_DCtx at the same time.
worker_entry(idx, e, trigrams, user_id, group_id, seen, hz, racing) ==
    LET s == EntrySlice(idx, e)
        d == IF s.init /\ ~(racing /\ hz.stale)
             THEN ZSTD_decompress(1048576, s.bytes)
             ELSE [err |-> hz.garbage = <<>>, out |-> hz.garbage]
        decoded == IF d.err THEN <<>>
                   ELSE gr_decode_ids(4, d.out, 0, idx.num_files)
        fresh == FirstOccurrences(
                    SelectSeq(decoded, LAMBDA id :
                        SeenInBounds(id, idx.num_files) \/ ~hz.stale), seen)
        matching == \A i \in 1..Len(trigrams) : ffbloom_check(idx.bloom, trigrams[i])
        kept == SelectSeq(fresh, LAMBDA id :
                    /\ matching
                    /\ id \in DOMAIN idx.file_metadata
                    /\ check_file_permission(idx.file_metadata[id], user_id, group_id))
    IN [crash |-> s.fault, ids |-> kept, seen |-> seen \cup Range(fresh)]

\* the loop of search_worker over entries[i .. end_idx): [crash,
\* local_results, seen], seen being the ids whose seen[] slot was written
RECURSIVE worker_entries(_, _, _, _, _, _, _, _, _, _)
worker_entries(idx, i, end_idx, trigrams, user_id, group_id, seen, local, hz, racing) ==
    IF i >= end_idx \/ i >= Len(idx.entries)
    THEN [crash |-> FALSE, local_results |-> local, seen |-> seen]
    ELSE IF idx.entries[i + 1].trigram \notin Range(trigrams)
    THEN worker_entries(idx, i + 1, end_idx, trigrams, user_id, group_id,
                        seen, local, hz, racing)
    ELSE LET w == worker_entry(idx, idx.entries[i + 1], trigrams, user_id,
                               group_id, seen, hz, racing)
         IN IF w.crash
            THEN [crash |-> TRUE, local_results |-> local, seen |-> seen]
            ELSE worker_entries(idx, i + 1, end_idx, trigrams, user_id, group_id,
                    w.seen, Take(local \o w.ids, RESULTS_PER_THREAD), hz, racing)

\* the merge without its test of num_results against max_results
RECURSIVE merge_results_unbounded(_, _, _)
merge_results_unbounded(results, local, max_results) ==
    IF local = <<>> THEN results
    ELSE merge_results_unbounded(
            IF local[1] \in Range(results) THEN results
            ELSE Append(results, local[1]),
            Tail(local), max_results)

\* the merge without the search for the id in query->results
RECURSIVE merge_results_unfiltered(_, _, _)
merge_results_unfiltered(results, local, max_results) ==
    IF local = <<>> \/ Len(results) >= max_results THEN results
    ELSE merge_results_unfiltered(Append(results, local[1]), Tail(local),
                                  max_results)

\* the merge of one worker's local results under result_mutex
RECURSIVE merge_results(_, _, _)
merge_results(results, local, max_results) ==
    IF local = <<>> \/ Len(results) >= max_results THEN results
    ELSE merge_results(
            IF local[1] \in Range(results) THEN results
            ELSE Append(results, local[1]),
            Tail(local), max_results)

RECURSIVE merge_all(_, _, _, _)
merge_all(results, locals, order, max_results) ==
    IF order = <<>> THEN results
    ELSE merge_all(merge_results(results, locals[Head(order)], max_results),
                   locals, Tail(order), max_results)

\* qsort of the ids with strcmp as comparator: an id is compared as the C
\* string of its little-endian bytes, which for ids below 256 is the order
\* of the ids themselves.
qsort_strcmp(results) == Ascending(Range(results))

\* order: the sequence in which the workers 0..num_threads-1 reach the
\* merge; its length is the number of workers, MIN(get_nprocs(), 16)
search_c_qfind_search(b, idx, q, user_id, group_id, max_results, hz, order) ==
    LET trigrams == extract_trigrams(b, q)
        pre == bloom_precheck(b, idx.bloom, trigrams, 1, TRUE)
        trie == search_c_search_trie(idx.trie_root, <<>>, q, 0, <<>>,
                                     max_results, hz.oob)
        num_threads == Min(Len(order), WORKER_THREADS)
        entries_per_thread == (Len(idx.entries) + num_threads - 1) \div num_threads
        busy == {i \in 0..(num_threads - 1) :
                    \E j \in (i * entries_per_thread + 1)..
                             Min((i + 1) * entries_per_thread, Len(idx.entries)) :
                        idx.entries[j].trigram \in Range(trigrams)}
        worker == [i \in 0..(num_threads - 1) |->
                     worker_entries(idx, i * entries_per_thread,
                                    (i + 1) * entries_per_thread, trigrams,
                                    user_id, group_id, {}, <<>>, hz,
                                    Cardinality(busy) > 1)]
        locals == [i \in 0..(num_threads - 1) |-> worker[i].local_results]
        merged == merge_all(<<>>, locals, order, max_results)
    IN IF q = <<>> THEN Returned(0, <<>>, idx.bloom)
       ELSE IF Len(trigrams) = 0 THEN Returned(Len(trie), trie, idx.bloom)
       ELSE IF ~pre.pass THEN Returned(0, <<>>, pre.bloom)
       ELSE IF \E i \in 0..(num_threads - 1) : worker[i].crash
       THEN [status |-> "SIGSEGV", ret |-> 0, results |-> <<>>, bloom |-> pre.bloom]
       ELSE Returned(Len(merged), qsort_strcmp(merged), pre.bloom)

\* the ids whose slot seen[file_id] the workers of one qfind_search of
\* search.c write (no worker is started when the query has no trigram or
\* the Bloom pre-check fails)
search_workers_seen(b, idx, q, user_id, group_id, hz, order) ==
    LET trigrams == extract_trigrams(b, q)
        pre == bloom_precheck(b, idx.bloom, trigrams, 1, TRUE)
        num_threads == Min(Len(order), WORKER_THREADS)
        entries_per_thread == (Len(idx.entries) + num_threads - 1) \div num_threads
        busy == {i \in 0..(num_threads - 1) :
                    \E j \in (i * entries_per_thread + 1)..
                             Min((i + 1) * entries_per_thread, Len(idx.entries)) :
                        idx.entries[j].trigram \in Range(trigrams)}
    IN IF q = <<>> \/ Len(trigrams) = 0 \/ ~pre.pass THEN {}
       ELSE UNION {worker_entries(idx, i * entries_per_thread,
                                  (i + 1) * entries_per_thread, trigrams,
                                  user_id, group_id, {}, <<>>, hz,
                                  Cardinality(busy) > 1).seen :
                   i \in 0..(num_threads - 1)}

-----------------------------------------------------------------------------
(* The world the program runs in *)

\* "ab" and "bcd"
Paths == {<<97, 98>>, <<98, 99, 100>>}

\* st_mode that lstat reports: 0100600 for "ab", 0100644 for "bcd"
st_mode(path) == IF path = <<97, 98>> THEN 33152 ELSE 33188

Queries == Paths

Users == {[user_id |-> 0, group_id |-> 0], [user_id |-> 1000, group_id |-> 1000]}

MaxResultsValues == {0, 2}

\* What the undefined reads of one search come to: oob is the byte found
\* before the query string, stale whether memory that was never written
\* (the seen[] slots past the allocation, the decompression context shared
\* by the workers) holds leftovers, garbage the bytes that decompressing an
\* uninitialised slice produces (<<>> for a decompression error).
NoHazard == [oob |-> 0, stale |-> FALSE, garbage |-> <<>>]

Hazards == {NoHazard, [oob |-> 97, stale |-> TRUE, garbage |-> <<16>>]}

\* get_nprocs() and the order in which the workers reach the merge
Schedules == {<<0>>, <<1, 0>>}

\* The definitions a build can link.  The two ffbloom_check differ only for
\* a caller that extracts trigrams and does not update the secondary filter
\* itself, which is qfind_search of qfind.c over the window extractor.
Builds ==
    {b \in [extract : {"window", "stub"},
            search : {"qfind.c", "search.c"},
            bloom : {"ffbloom.c", "part_001"}] :
        b.bloom = "part_001" => (b.extract = "window" /\ b.search = "qfind.c")}

-----------------------------------------------------------------------------
(* State *)

View(idx) == [entries |-> idx.entries, compressed_data |-> idx.compressed_data]

NoQuery ==
    [status |-> "none", query |-> <<>>, user_id |-> 0, group_id |-> 0,
     max_results |-> 0, ret |-> 0, results |-> <<>>, hz |-> NoHazard]

NoCodec ==
    [stage |-> "none", raw |-> <<>>, deltas |-> <<>>, k |-> 0, frame |-> <<>>,
     decoded |-> <<>>, decoded_k |-> <<>>]

NoTwin ==
    [stage |-> "none", once |-> qfind_init, twice |-> qfind_init, log |-> {},
     doubled |-> {}]

\* allocated: the FileMeta records the block behind file_metadata holds;
\* written, room: the index of the last record an event wrote and the
\* records the block held at that write
NoMeta ==
    [stage |-> "none", num_files |-> 0, meta_capacity |-> 0, allocated |-> 0,
     events |-> 0, written |-> -1, room |-> 0]

\* the worker of index_updates.c before init_realtime_updates.  adds, dels:
\* pending_adds.count and pending_dels.count; inbox: what waits to be read
\* on inotify_fd; created: pthread_create has run; running: the flag
NoThread ==
    [init_pc |-> "none", created |-> FALSE, running |-> FALSE, pc |-> "none",
     inbox |-> [adds |-> 0, dels |-> 0], adds |-> 0, dels |-> 0,
     bursts |-> 0, worker_commits |-> 0, stop_pc |-> "idle"]

\* io_context_t after io_context_init.  buffers: the table of registered
\* buffers; kernel_registered: the ring holds a set of fixed buffers; sq:
\* requests prepared and not yet entered; inflight: requests the kernel
\* works on; cq: completions posted and not yet reaped; ret: what the last
\* call returned; submitted: the calls of io_submit_read so far
NoIo == [buffers |-> <<>>, kernel_registered |-> FALSE, sq |-> <<>>,
         inflight |-> <<>>, cq |-> <<>>, ret |-> "none", submitted |-> 0]

\* thread_data[] and the result buffer of qfind_search of search.c before
\* any worker exists
NoThreads == [local_results |-> <<>>, merged |-> {}, results |-> <<>>,
              max_results |-> 0]

NoRanking ==
    [stage |-> "none", scored_results |-> <<>>, max_results |-> 0,
     num_results |-> 0, results |-> <<>>]

InitHist ==
    [walked |-> {}, commits |-> 0, added |-> {},
     committed |-> {}, pending |-> {}, del_waiting |-> {}, del_mark |-> {},
     tombstoned |-> {}, sealed |-> View(qfind_init), visible |-> {},
     commit_failed |-> FALSE, commit_ret |-> 0,
     enqueued |-> {}, applied |-> {}, reapplied |-> {},
     dels_enqueued |-> 0, dels_applied |-> 0]

Init ==
    /\ build \in Builds
    /\ index = qfind_init
    /\ realtime_ctx = [path_cache |-> {}, pending_adds |-> <<>>, pending_dels |-> <<>>]
    /\ main_pc = "init"
    /\ commit_pc = "idle"
    /\ commit_local = [adds |-> <<>>, dels |-> <<>>]
    /\ query = NoQuery
    /\ hist = InitHist
    /\ codec = NoCodec
    /\ twin = NoTwin
    /\ ranking = NoRanking
    /\ meta_block = NoMeta
    /\ update_thread = NoThread
    /\ io_context = NoIo
    /\ thread_data = NoThreads

\* the process is gone after a fatal signal
Alive == query.status # "SIGSEGV" /\ commit_pc # "SIGSEGV"

\* A search is one step, and `query` holds its outcome until the caller has
\* read and freed the results; the other threads move before or after it.
Ready == Alive /\ query.status = "none"

\* what the searches of every query and user return on idx when no hazard
\* bites: the ids a completed commit has made visible
VisibleIn(b, idx) ==
    UNION {LET hz == NoHazard
               r == IF b.search = "qfind.c"
                    THEN qfind_c_qfind_search(b, idx, q, u.user_id, u.group_id,
                                              MaxFiles, hz)
                    ELSE search_c_qfind_search(b, idx, q, u.user_id, u.group_id,
                                               MaxFiles, hz, <<0>>)
           IN {[query |-> q, user_id |-> u.user_id, id |-> i] :
                    i \in Range(r.results)} :
           q \in Queries, u \in Users}

FileMeta(id, path, mode) == [id |-> id, path |-> path, permissions |-> mode]

IdsOfPath(idx, path) ==
    {i \in DOMAIN idx.file_metadata : idx.file_metadata[i].path = path}

-----------------------------------------------------------------------------
(* Initial build (qfind.c) *)

\* qfind_build_index up to the call of process_directory
BuildBegin ==
    /\ Ready /\ main_pc = "init"
    /\ index' = [index EXCEPT !.file_metadata = <<>>,
                              !.meta_capacity = INITIAL_META_CAPACITY,
                              !.num_files = 0]
    /\ main_pc' = "building"
    /\ UNCHANGED <<build, realtime_ctx, commit_pc, commit_local, query, hist,
                   codec, twin, ranking, meta_block, update_thread, io_context,
                   thread_data>>

\* One regular file of the walk in process_directory.  The thread holds
\* index_lock for writing when add_file_to_index asks for it again:
\* relock is "EDEADLK" when the second wrlock returns that error and the
\* call goes on, "deadlock" when the thread blocks on itself.
process_directory(path, relock) ==
    /\ Ready /\ main_pc = "building"
    /\ path \notin hist.walked
    /\ index.num_files < MaxFiles
    /\ LET id == index.num_files
           grown == IF index.num_files >= index.meta_capacity
                    THEN [index EXCEPT !.meta_capacity =
                            IF @ # 0 THEN @ * 2 ELSE INITIAL_META_CAPACITY]
                    ELSE index
           with_meta == [grown EXCEPT !.file_metadata =
                            (id :> FileMeta(id, path, st_mode(path))) @@ @]
       IN IF relock = "EDEADLK"
          THEN /\ index' = [add_file_to_index(build, with_meta, path, id)
                               EXCEPT !.num_files = @ + 1]
               /\ main_pc' = main_pc
               /\ hist' = [hist EXCEPT !.walked = @ \cup {path},
                                       !.added = @ \cup {[path |-> path, id |-> id]}]
          ELSE /\ index' = [with_meta EXCEPT
                               !.trie_root = insert_path_to_trie(@, path, id),
                               !.index_lock = "held"]
               /\ main_pc' = "deadlocked"
               /\ hist' = [hist EXCEPT !.walked = @ \cup {path}]
    /\ UNCHANGED <<build, realtime_ctx, commit_pc, commit_local, query,
                   codec, twin, ranking, meta_block, update_thread, io_context,
                   thread_data>>

\* the end of qfind_build_index: compress_posting_lists under the write lock
BuildFinish ==
    /\ Ready /\ main_pc = "building"
    /\ index' = compress_posting_lists(index)
    /\ main_pc' = "built"
    /\ hist' = [hist EXCEPT !.committed = hist.added, !.sealed = View(index'),
                            !.visible = @ \cup VisibleIn(build, index')]
    /\ UNCHANGED <<build, realtime_ctx, commit_pc, commit_local, query,
                   codec, twin, ranking, meta_block, update_thread, io_context,
                   thread_data>>

-----------------------------------------------------------------------------
(* Realtime updates (index_updates.c) *)

LsmNode(id, path) == [id |-> id, path |-> path]

\* a lookup that takes any cached entry for a match
CacheHitsAnyKey(path) == realtime_ctx.path_cache

\* path_to_id: HASH_FIND_STR over a table that may hold the key twice
CacheHits(path) == {c \in realtime_ctx.path_cache : c.path = path}

\* The daemon starts the realtime layer once qfind_build_index has
\* returned, so events and commits are handled in the state "built".
\* handle_file_event for a regular file named by `path` (no name of the
\* model starts with a dot).  mask is "create" for IN_CREATE, IN_MOVED_TO
\* and IN_MODIFY, "delete" for IN_DELETE, IN_MOVED_FROM and IN_DELETE_SELF;
\* lstat_ok is whether lstat(path) succeeds when the event is handled.
handle_file_event(path, mask, lstat_ok) ==
    /\ Ready /\ main_pc = "built"
    /\ mask = "create" /\ lstat_ok => index.num_files < MaxFiles
    /\ LET seen_del == IF mask = "delete"
                       THEN IdsOfPath(index, path) \ hist.tombstoned
                       ELSE {}
           h == [hist EXCEPT !.del_waiting = @ \cup seen_del]
       IN IF ~lstat_ok
          THEN /\ hist' = h
               /\ UNCHANGED <<index, realtime_ctx>>
          ELSE IF mask = "create"
          THEN LET id == index.num_files
               IN /\ index' = [index EXCEPT
                        !.num_files = @ + 1,
                        !.file_metadata =
                            (id :> FileMeta(id, path, st_mode(path))) @@ @]
                  /\ realtime_ctx' = [realtime_ctx EXCEPT
                        !.path_cache = @ \cup {LsmNode(id, path)},
                        !.pending_adds = Append(@, LsmNode(id, path))]
                  /\ hist' = [h EXCEPT
                        !.pending = @ \cup
                            (IF IdsOfPath(index, path) = {} THEN {id} ELSE {}),
                        !.enqueued = @ \cup {LsmNode(id, path)}]
          ELSE IF CacheHits(path) = {}
          THEN /\ hist' = h
               /\ UNCHANGED <<index, realtime_ctx>>
          ELSE \E found \in CacheHits(path), dropped \in CacheHits(path) :
                  /\ realtime_ctx' = [realtime_ctx EXCEPT
                        !.path_cache = @ \ {dropped},
                        !.pending_dels = Append(@, LsmNode(found.id, path))]
                  /\ hist' = [h EXCEPT !.dels_enqueued = @ + 1]
                  /\ UNCHANGED index
    /\ UNCHANGED <<build, main_pc, commit_pc, commit_local, query, codec,
                   twin, ranking, meta_block, update_thread, io_context,
                   thread_data>>

\* a swap that copies the batch and leaves the shared head in place
CommitSwapAddsKeepsHead ==
    /\ Ready /\ commit_pc = "idle"
    /\ main_pc = "built"
    /\ hist.commits < MaxCommits
    /\ commit_local' = [adds |-> realtime_ctx.pending_adds, dels |-> <<>>]
    /\ commit_pc' = "adds_swapped"
    /\ hist' = [hist EXCEPT !.commits = @ + 1, !.del_mark = hist.del_waiting]
    /\ UNCHANGED <<build, index, realtime_ctx, main_pc, query, codec, twin,
                   ranking, meta_block, update_thread, io_context, thread_data>>

\* qfind_commit_updates, one action per step another thread can observe
CommitSwapAdds ==
    /\ Ready /\ commit_pc = "idle"
    /\ main_pc = "built"
    /\ hist.commits < MaxCommits
    /\ commit_local' = [adds |-> realtime_ctx.pending_adds, dels |-> <<>>]
    /\ realtime_ctx' = [realtime_ctx EXCEPT !.pending_adds = <<>>]
    /\ commit_pc' = "adds_swapped"
    /\ hist' = [hist EXCEPT !.commits = @ + 1, !.del_mark = hist.del_waiting]
    /\ UNCHANGED <<build, index, main_pc, query, codec, twin, ranking,
                   meta_block, update_thread, io_context, thread_data>>

CommitSwapDels ==
    /\ Ready /\ commit_pc = "adds_swapped"
    /\ commit_local' = [commit_local EXCEPT !.dels = realtime_ctx.pending_dels]
    /\ realtime_ctx' = [realtime_ctx EXCEPT !.pending_dels = <<>>]
    /\ commit_pc' = "swapped"
    /\ UNCHANGED <<build, index, main_pc, query, hist, codec, twin, ranking,
                   meta_block, update_thread, io_context, thread_data>>

RECURSIVE apply_adds(_, _, _)
apply_adds(b, idx, adds) ==
    IF adds = <<>> THEN idx
    ELSE apply_adds(b, add_file_to_index(b, idx, adds[1].path, adds[1].id),
                    Tail(adds))

\* The loop over adds.  Each node is freed before its next pointer is read:
\* uaf is "intact" when the freed node still holds the pointer, "SIGSEGV"
\* when the read or the walk that follows it faults.
CommitApplyAdds(uaf) ==
    /\ Ready /\ commit_pc = "swapped"
    /\ LET adds == commit_local.adds
       IN IF adds = <<>>
          THEN /\ uaf = "intact"
               /\ commit_pc' = "adds_applied"
               /\ UNCHANGED <<index, hist>>
          ELSE IF uaf = "SIGSEGV"
          THEN /\ index' = add_file_to_index(build, index, adds[1].path, adds[1].id)
               /\ commit_pc' = "SIGSEGV"
               /\ hist' = [hist EXCEPT
                        !.added = @ \cup {adds[1]},
                        !.applied = @ \cup {adds[1]},
                        !.reapplied = @ \cup ({adds[1]} \cap hist.applied)]
          ELSE /\ index' = apply_adds(build, index, adds)
               /\ commit_pc' = "adds_applied"
               /\ hist' = [hist EXCEPT
                        !.added = @ \cup Range(adds),
                        !.applied = @ \cup Range(adds),
                        !.reapplied = @ \cup (Range(adds) \cap hist.applied)]
    /\ UNCHANGED <<build, realtime_ctx, main_pc, commit_local, query,
                   codec, twin, ranking, meta_block, update_thread, io_context,
                   thread_data>>

\* the first slot below num_files whose path equals the node's gets path[0] = 0
tombstone(idx, path) ==
    LET hits == {i \in DOMAIN idx.file_metadata :
                    i < idx.num_files /\ idx.file_metadata[i].path = path}
    IN IF hits = {} THEN idx
       ELSE LET i == CHOOSE x \in hits : \A y \in hits : x <= y
            IN [idx EXCEPT !.file_metadata[i].path = <<>>]

RECURSIVE apply_dels(_, _)
apply_dels(idx, dels) ==
    IF dels = <<>> THEN idx
    ELSE apply_dels(tombstone(idx, dels[1].path), Tail(dels))

CommitApplyDels(uaf) ==
    /\ Ready /\ commit_pc = "adds_applied"
    /\ LET dels == commit_local.dels
       IN IF dels = <<>>
          THEN /\ uaf = "intact"
               /\ commit_pc' = "dels_applied"
               /\ UNCHANGED <<index, hist>>
          ELSE IF uaf = "SIGSEGV"
          THEN /\ index' = tombstone(index, dels[1].path)
               /\ commit_pc' = "SIGSEGV"
               /\ hist' = [hist EXCEPT !.dels_applied = @ + 1]
          ELSE /\ index' = apply_dels(index, dels)
               /\ commit_pc' = "dels_applied"
               /\ hist' = [hist EXCEPT !.dels_applied = @ + Len(dels)]
    /\ UNCHANGED <<build, realtime_ctx, main_pc, commit_local, query,
                   codec, twin, ranking, meta_block, update_thread, io_context,
                   thread_data>>

\* compress_posting_lists as called by the commit, without index_lock
CommitLayout ==
    /\ Ready /\ commit_pc = "dels_applied"
    /\ index' = cpl_layout(index)
    /\ commit_pc' = "laid_out"
    /\ UNCHANGED <<build, realtime_ctx, main_pc, commit_local, query, hist,
                   codec, twin, ranking, meta_block, update_thread, io_context,
                   thread_data>>

CommitAlloc ==
    /\ Ready /\ commit_pc = "laid_out"
    /\ index' = cpl_alloc(index)
    /\ commit_pc' = "allocated"
    /\ UNCHANGED <<build, realtime_ctx, main_pc, commit_local, query, hist,
                   codec, twin, ranking, meta_block, update_thread, io_context,
                   thread_data>>

\* the second loop of compress_posting_lists and the return of the commit
CommitFill ==
    /\ Ready /\ commit_pc = "allocated"
    /\ index' = cpl_fill(index)
    /\ commit_pc' = "idle"
    /\ commit_local' = [adds |-> <<>>, dels |-> <<>>]
    /\ hist' = [hist EXCEPT
            !.committed = hist.added,
            !.pending = @ \ {n.id : n \in Range(commit_local.adds)},
            !.tombstoned = @ \cup hist.del_mark,
            !.del_waiting = @ \ hist.del_mark,
            !.del_mark = {},
            !.sealed = View(index'),
            !.visible = @ \cup VisibleIn(build, index')]
    /\ UNCHANGED <<build, realtime_ctx, main_pc, query, codec, twin, ranking,
                   meta_block, update_thread, io_context, thread_data>>

-----------------------------------------------------------------------------
(* Searches *)

\* hz is kept beside the outcome: the undefined reads this search ran into
QueryOf(q, u, max_results, hz, r) ==
    [status |-> r.status, query |-> q, user_id |-> u.user_id,
     group_id |-> u.group_id, max_results |-> max_results, ret |-> r.ret,
     results |-> r.results, hz |-> hz]

\* the call reaches pthread_rwlock_rdlock
TakesReadLock(q, max_results) ==
    /\ max_results # 0
    /\ extract_trigrams(build, q) # <<>>
    /\ bloom_precheck(build, index.bloom, extract_trigrams(build, q), 1, FALSE).pass

SearchQ(q, u, max_results, hz) ==
    /\ Ready /\ build.search = "qfind.c"
    /\ ~(TakesReadLock(q, max_results) /\ index.index_lock = "held")
    /\ LET r == qfind_c_qfind_search(build, index, q, u.user_id, u.group_id,
                                     max_results, hz)
       IN /\ query' = QueryOf(q, u, max_results, hz, r)
          /\ index' = [index EXCEPT !.bloom = r.bloom]
    /\ UNCHANGED <<build, realtime_ctx, main_pc, commit_pc, commit_local, hist,
                   codec, twin, ranking, meta_block, update_thread, io_context,
                   thread_data>>

SearchS(q, u, max_results, hz, order) ==
    /\ Ready /\ build.search = "search.c"
    /\ LET r == search_c_qfind_search(build, index, q, u.user_id, u.group_id,
                                      max_results, hz, order)
       IN /\ query' = QueryOf(q, u, max_results, hz, r)
          /\ index' = [index EXCEPT !.bloom = r.bloom]
    /\ UNCHANGED <<build, realtime_ctx, main_pc, commit_pc, commit_local, hist,
                   codec, twin, ranking, meta_block, update_thread, io_context,
                   thread_data>>

\* the caller has read the results: free(query.results)
QueryDone ==
    /\ query.status = "returned"
    /\ query' = NoQuery
    /\ UNCHANGED <<build, index, realtime_ctx, main_pc, commit_pc, commit_local,
                   hist, codec, twin, ranking, meta_block, update_thread,
                   io_context, thread_data>>

-----------------------------------------------------------------------------

Next ==
    \/ BuildBegin
    \/ \E path \in Paths, relock \in {"EDEADLK", "deadlock"} :
          process_directory(path, relock)
    \/ BuildFinish
    \/ \E path \in Paths, mask \in {"create", "delete"}, lstat_ok \in BOOLEAN :
          handle_file_event(path, mask, lstat_ok)
    \/ CommitSwapAdds
    \/ CommitSwapDels
    \/ \E uaf \in {"intact", "SIGSEGV"} : CommitApplyAdds(uaf)
    \/ \E uaf \in {"intact", "SIGSEGV"} : CommitApplyDels(uaf)
    \/ CommitLayout
    \/ CommitAlloc
    \/ CommitFill
    \/ \E q \in Queries, u \in Users, m \in MaxResultsValues, hz \in Hazards :
          SearchQ(q, u, m, hz)
    \/ \E q \in Queries, u \in Users, m \in MaxResultsValues, hz \in Hazards,
          order \in Schedules :
          SearchS(q, u, m, hz, order)
    \/ QueryDone

Spec == Init /\ [][Next]_vars

-----------------------------------------------------------------------------
(* The event handler alone: the initial build, then file events with no    *)
(* commit taking the batches away.                                         *)

NextEvents ==
    \/ BuildBegin
    \/ \E path \in Paths : process_directory(path, "EDEADLK")
    \/ BuildFinish
    \/ \E path \in Paths, mask \in {"create", "delete"}, lstat_ok \in BOOLEAN :
          handle_file_event(path, mask, lstat_ok)

SpecEvents == Init /\ [][NextEvents]_vars

-----------------------------------------------------------------------------
(* The pending batches: the initial build, then file events that enqueue   *)
(* nodes while a commit takes the batches and applies them, an event       *)
(* being free to arrive between any two steps of the commit.               *)

NextBatches ==
    \/ BuildBegin
    \/ \E path \in Paths : process_directory(path, "EDEADLK")
    \/ BuildFinish
    \/ \E path \in Paths, mask \in {"create", "delete"} :
          handle_file_event(path, mask, TRUE)
    \/ CommitSwapAdds
    \/ CommitSwapDels
    \/ \E uaf \in {"intact", "SIGSEGV"} : CommitApplyAdds(uaf)
    \/ \E uaf \in {"intact", "SIGSEGV"} : CommitApplyDels(uaf)
    \/ CommitLayout
    \/ CommitAlloc
    \/ CommitFill

SpecBatches == Init /\ [][NextBatches]_vars

-----------------------------------------------------------------------------
(* The Bloom pair of the index under its four calls, in any order and on   *)
(* any item, starting from the filters qfind_init creates.                 *)

\* the trigrams "abc", "bcd", "cde", "def"
BloomItems == Range(extract_trigrams_window(<<97, 98, 99, 100, 101, 102>>))

BloomAdd(item) ==
    /\ index' = [index EXCEPT !.bloom = ffbloom_add(@, item)]
    /\ UNCHANGED <<build, realtime_ctx, main_pc, commit_pc, commit_local,
                   query, hist, codec, twin, ranking, meta_block,
                   update_thread, io_context, thread_data>>

\* the return value is ffbloom_check(index.bloom, item)
BloomCheck(item) ==
    /\ index' = [index EXCEPT !.bloom = ffbloom_check_effect(build, @, item)]
    /\ UNCHANGED <<build, realtime_ctx, main_pc, commit_pc, commit_local,
                   query, hist, codec, twin, ranking, meta_block,
                   update_thread, io_context, thread_data>>

BloomUpdateSecondary(item) ==
    /\ index' = [index EXCEPT !.bloom = ffbloom_update_secondary(@, item)]
    /\ UNCHANGED <<build, realtime_ctx, main_pc, commit_pc, commit_local,
                   query, hist, codec, twin, ranking, meta_block,
                   update_thread, io_context, thread_data>>

\* ffbloom_get_candidates takes the filter as const: the output is
\* ffbloom_get_candidates(index.bloom, patterns), the filter stays
BloomGetCandidates(patterns) ==
    /\ Len(ffbloom_get_candidates(index.bloom, patterns)) <= Len(patterns)
    /\ UNCHANGED vars

NextBloom ==
    \/ \E item \in BloomItems : BloomAdd(item)
    \/ \E item \in BloomItems : BloomCheck(item)
    \/ \E item \in BloomItems : BloomUpdateSecondary(item)
    \/ \E a, b \in BloomItems : BloomGetCandidates(<<a, b>>)

SpecBloom == Init /\ [][NextBloom]_vars

-----------------------------------------------------------------------------
(* The initial build over a tree whose file names hold runs of equal bytes *)
(* and the byte 0xFF.                                                      *)

\* "ab", "aab", "ccb", "\xFFb"
RunPaths == {<<97, 98>>, <<97, 97, 98>>, <<99, 99, 98>>, <<255, 98>>}

NextPaths ==
    \/ BuildBegin
    \/ \E path \in RunPaths : process_directory(path, "EDEADLK")
    \/ BuildFinish

SpecPaths == Init /\ [][NextPaths]_vars

-----------------------------------------------------------------------------
(* The block behind file_metadata: how many records it holds and where     *)
(* the writes land, for an initial build over up to MaxWalked regular      *)
(* files followed by create events.  Only the counters are kept: the       *)
(* records' contents play no part in the sizes.                            *)

\* qfind_build_index up to its call of process_directory
MetaBuildBegin ==
    /\ meta_block.stage = "none"
    /\ meta_block' = [meta_block EXCEPT
                        !.stage = "building",
                        !.allocated = INITIAL_META_CAPACITY,
                        !.meta_capacity = INITIAL_META_CAPACITY,
                        !.num_files = 0]
    /\ UNCHANGED <<build, index, realtime_ctx, main_pc, commit_pc, commit_local,
                   query, hist, codec, twin, ranking, update_thread,
                   io_context, thread_data>>

\* one regular file of process_directory, add_file_to_index returning 0
MetaProcessFile ==
    /\ meta_block.stage = "building"
    /\ meta_block.num_files < MaxWalked
    /\ LET new_cap == IF meta_block.meta_capacity # 0
                      THEN meta_block.meta_capacity * META_GROW_FACTOR
                      ELSE INITIAL_META_CAPACITY
           grows == meta_block.num_files >= meta_block.meta_capacity
       IN meta_block' = [meta_block EXCEPT
                           !.allocated = IF grows THEN new_cap ELSE @,
                           !.meta_capacity = IF grows THEN new_cap ELSE @,
                           !.num_files = @ + 1]
    /\ UNCHANGED <<build, index, realtime_ctx, main_pc, commit_pc, commit_local,
                   query, hist, codec, twin, ranking, update_thread,
                   io_context, thread_data>>

\* qfind_build_index returns
MetaBuildFinish ==
    /\ meta_block.stage = "building"
    /\ meta_block' = [meta_block EXCEPT !.stage = "built"]
    /\ UNCHANGED <<build, index, realtime_ctx, main_pc, commit_pc, commit_local,
                   query, hist, codec, twin, ranking, update_thread,
                   io_context, thread_data>>

\* the create branch of handle_file_event for a regular file, realloc
\* succeeding: the id is taken, the block is resized when the new num_files
\* is a multiple of 1000, and the record of the id is written
MetaCreateEvent ==
    /\ meta_block.stage = "built"
    /\ meta_block.events < MaxEvents
    /\ LET id == meta_block.num_files
           num_files == meta_block.num_files + 1
           allocated == IF num_files % EVENT_GROW_STEP = 0
                        THEN num_files + EVENT_GROW_STEP
                        ELSE meta_block.allocated
       IN meta_block' = [meta_block EXCEPT
                           !.num_files = num_files,
                           !.allocated = allocated,
                           !.events = @ + 1,
                           !.written = id,
                           !.room = allocated]
    /\ UNCHANGED <<build, index, realtime_ctx, main_pc, commit_pc, commit_local,
                   query, hist, codec, twin, ranking, update_thread,
                   io_context, thread_data>>

NextMeta ==
    \/ MetaBuildBegin
    \/ MetaProcessFile
    \/ MetaBuildFinish
    \/ MetaCreateEvent

SpecMeta == Init /\ [][NextMeta]_vars

(***************************************************************************)
(* The background worker of index_updates.c, in counts: update_thread_func *)
(* with the commit it calls, init_realtime_updates that starts it and      *)
(* stop_realtime_updates that joins it.  An event in the inbox is one that *)
(* handle_file_event turns into a queue node: a create of a file lstat     *)
(* finds, or a delete of a cached path.                                    *)
(***************************************************************************)
LSM_BATCH_SIZE == 5000
MaxBursts == 2
BurstSizes == {1, LSM_BATCH_SIZE}

ProcessAlive(t) == t.pc # "SIGSEGV" /\ t.stop_pc # "SIGSEGV"

\* the test of index_updates.c:79 as a batch_ready that asks for more than
\* LSM_BATCH_SIZE nodes
batch_ready_strict(t) == t.adds > LSM_BATCH_SIZE \/ t.dels > LSM_BATCH_SIZE

\* index_updates.c:78-79
batch_ready(t) == t.adds >= LSM_BATCH_SIZE \/ t.dels >= LSM_BATCH_SIZE

\* init_realtime_updates: inotify_init1 fails and nothing is set up; a watch
\* cannot be added and stop_realtime_updates is called before any thread
\* exists; pthread_create fails and running stays set; or the worker starts
init_realtime_updates(inotify_ok, watch_ok, create_ok) ==
    /\ update_thread.init_pc = "none"
    /\ update_thread' =
         IF ~inotify_ok THEN [update_thread EXCEPT !.init_pc = "failed"]
         ELSE IF ~watch_ok
         THEN [update_thread EXCEPT !.init_pc = "watch_failed",
                                    !.running = TRUE]
         ELSE IF ~create_ok
         THEN [update_thread EXCEPT !.init_pc = "failed", !.running = TRUE]
         ELSE [update_thread EXCEPT !.init_pc = "ok", !.running = TRUE,
                                    !.created = TRUE, !.pc = "test"]
    /\ UNCHANGED <<build, index, realtime_ctx, main_pc, commit_pc,
                   commit_local, query, hist, codec, twin, ranking,
                   meta_block, io_context, thread_data>>

\* the kernel queues n events of one kind on inotify_fd
inotify_events(is_add, n) ==
    /\ update_thread.init_pc = "ok"
    /\ update_thread.stop_pc \in {"idle", "join"}
    /\ ProcessAlive(update_thread)
    /\ update_thread.bursts < MaxBursts
    /\ update_thread' =
         [update_thread EXCEPT
            !.bursts = @ + 1,
            !.inbox = IF is_add THEN [@ EXCEPT !.adds = @ + n]
                                ELSE [@ EXCEPT !.dels = @ + n]]
    /\ UNCHANGED <<build, index, realtime_ctx, main_pc, commit_pc,
                   commit_local, query, hist, codec, twin, ranking,
                   meta_block, io_context, thread_data>>

\* the position after one step of the worker.  ready is what poll returns
\* when nothing is readable: 0 after the 30 s, "EINTR" or another error;
\* with events in the inbox poll returns 1 at once.  uaf is what the read
\* of node->next after free(node) does in the commit's loops
update_thread_step(t, ready, uaf) ==
    CASE t.pc = "test" ->
           [t EXCEPT !.pc = IF t.running THEN "poll" ELSE "exited"]
      [] t.pc = "poll" ->
           IF t.inbox.adds + t.inbox.dels > 0
           THEN [t EXCEPT !.pc = "events"]
           ELSE IF ready = "error" THEN [t EXCEPT !.pc = "exited"]
           ELSE [t EXCEPT !.pc = "check"]
      [] t.pc = "events" ->
           [t EXCEPT !.adds = @ + t.inbox.adds, !.dels = @ + t.inbox.dels,
                     !.inbox = [adds |-> 0, dels |-> 0], !.pc = "check"]
      [] t.pc = "check" ->
           [t EXCEPT !.pc = IF batch_ready(t) THEN "swap" ELSE "test"]
      [] t.pc = "swap" ->
           [t EXCEPT !.adds = 0, !.dels = 0, !.worker_commits = @ + 1,
                     !.pc = "apply"]
      [] t.pc = "apply" ->
           [t EXCEPT !.pc = IF uaf = "SIGSEGV" THEN "SIGSEGV" ELSE "test"]

\* update_thread_func, one step at a time
update_thread_func ==
    /\ update_thread.pc \in {"test", "poll", "events", "check", "swap",
                             "apply"}
    /\ ProcessAlive(update_thread)
    /\ \E ready \in {"timeout", "EINTR", "error"} :
         \E uaf \in {"intact", "SIGSEGV"} :
           update_thread' = update_thread_step(update_thread, ready, uaf)
    /\ UNCHANGED <<build, index, realtime_ctx, main_pc, commit_pc,
                   commit_local, query, hist, codec, twin, ranking,
                   meta_block, io_context, thread_data>>

\* stop_realtime_updates is entered: by the caller after a successful
\* init_realtime_updates, or by init_realtime_updates itself at line 221
stop_realtime_updates ==
    /\ update_thread.init_pc \in {"ok", "watch_failed"}
    /\ update_thread.stop_pc = "idle"
    /\ ProcessAlive(update_thread)
    /\ update_thread' = [update_thread EXCEPT !.running = FALSE,
                                               !.stop_pc = "join"]
    /\ UNCHANGED <<build, index, realtime_ctx, main_pc, commit_pc,
                   commit_local, query, hist, codec, twin, ranking,
                   meta_block, io_context, thread_data>>

\* pthread_join(realtime_ctx.update_thread, NULL).  A created thread is
\* waited for.  Without one the handle is the zero the static context
\* starts with: the call is undefined, it fails with ESRCH or the process
\* dies reading through the handle
stop_join(outcome) ==
    /\ update_thread.stop_pc = "join"
    /\ ProcessAlive(update_thread)
    /\ IF update_thread.created
       THEN /\ update_thread.pc = "exited"
            /\ outcome = "joined"
       ELSE outcome \in {"ESRCH", "SIGSEGV"}
    /\ update_thread' =
         [update_thread EXCEPT
            !.stop_pc = IF outcome = "SIGSEGV" THEN "SIGSEGV" ELSE "commit"]
    /\ UNCHANGED <<build, index, realtime_ctx, main_pc, commit_pc,
                   commit_local, query, hist, codec, twin, ranking,
                   meta_block, io_context, thread_data>>

\* the rest of stop_realtime_updates: the watches are removed, inotify_fd
\* is closed and what is pending is committed
stop_commit(uaf) ==
    /\ update_thread.stop_pc = "commit"
    /\ ProcessAlive(update_thread)
    /\ update_thread' =
         [update_thread EXCEPT
            !.adds = 0, !.dels = 0, !.inbox = [adds |-> 0, dels |-> 0],
            !.stop_pc = IF uaf = "SIGSEGV" /\ update_thread.adds
                                              + update_thread.dels > 0
                        THEN "SIGSEGV" ELSE "returned"]
    /\ UNCHANGED <<build, index, realtime_ctx, main_pc, commit_pc,
                   commit_local, query, hist, codec, twin, ranking,
                   meta_block, io_context, thread_data>>

StopSteps ==
    \/ \E outcome \in {"joined", "ESRCH", "SIGSEGV"} : stop_join(outcome)
    \/ \E uaf \in {"intact", "SIGSEGV"} : stop_commit(uaf)

NextWorker ==
    \/ \E inotify_ok, watch_ok, create_ok \in BOOLEAN :
         init_realtime_updates(inotify_ok, watch_ok, create_ok)
    \/ \E is_add \in BOOLEAN : \E n \in BurstSizes :
         inotify_events(is_add, n)
    \/ update_thread_func
    \/ stop_realtime_updates
    \/ StopSteps

\* the worker is a thread of its own and poll returns after 30 s at the
\* latest, so a step it can take is taken; so are the steps of a
\* stop_realtime_updates that has been entered.  Nothing obliges the file
\* system to produce events or the caller to stop
SpecWorker ==
    /\ Init
    /\ [][NextWorker]_vars
    /\ WF_vars(update_thread_func)
    /\ WF_vars(StopSteps)

-----------------------------------------------------------------------------
(* io_ops.c: the table of registered buffers, the reads submitted on them  *)
(* and the completions reaped.  A buffer is named by its address.          *)

MaxOps == 2
QueueSize == 1
\* the slots of the buffer table (MAX_REG_BUFFERS, 1024 in qfind.h)
MaxRegBuffers == 2
Bufs == {1, 2}
IovSets == {<<1>>, <<2>>, <<1, 2>>}

\* find_buffer_index: the first slot holding buf, 0 for -1
find_buffer_index(ctx, buf) ==
    LET hits == {i \in DOMAIN ctx.buffers : ctx.buffers[i].buf = buf}
    IN IF hits = {} THEN 0 ELSE CHOOSE i \in hits : \A j \in hits : i <= j

\* the flags the kernel puts in the completion of a request:
\* IORING_CQE_F_BUFFER marks a buffer the kernel selected from a provided
\* group (IOSQE_BUFFER_SELECT), which no request of io_ops.c asks for
cqe_of(op) == [flags |-> {}, buffer_id |-> 0, op |-> op]

\* the requests the ring or the kernel still holds, reaped or not
Unreaped(ctx) ==
    ctx.sq \o ctx.inflight \o [i \in 1..Len(ctx.cq) |-> ctx.cq[i].op]

IoUnchanged ==
    UNCHANGED <<build, index, realtime_ctx, main_pc, commit_pc,
                commit_local, query, hist, codec, twin, ranking,
                meta_block, update_thread, thread_data>>

\* io_register_buffers: the kernel takes one set of fixed buffers per ring
\* and refuses a second one with -EBUSY
io_register_buffers(iovs) ==
    /\ io_context' =
         IF Len(io_context.buffers) + Len(iovs) > MaxRegBuffers
         THEN [io_context EXCEPT !.ret = "ENOSPC"]
         ELSE IF io_context.kernel_registered
         THEN [io_context EXCEPT !.ret = "EBUSY"]
         ELSE [io_context EXCEPT
                 !.buffers = @ \o [i \in 1..Len(iovs) |->
                                      [buf |-> iovs[i], refcount |-> 0]],
                 !.kernel_registered = TRUE,
                 !.ret = "0"]
    /\ IoUnchanged

\* io_submit_read.  len_fits: len is at most the length registered for buf;
\* submit_ok: io_uring_submit enters the prepared requests, or fails and
\* leaves them in the submission queue for the next call.  The ring has
\* QueueSize submission slots
io_submit_read(buf, len_fits, submit_ok) ==
    /\ io_context.submitted < MaxOps
    /\ LET buf_idx == find_buffer_index(io_context, buf)
           op == [fixed |-> buf_idx > 0, buf |-> buf]
           called == [io_context EXCEPT !.submitted = @ + 1]
       IN io_context' =
            IF Len(io_context.sq) >= QueueSize
            THEN [called EXCEPT !.ret = "EBUSY"]
            ELSE IF buf_idx > 0 /\ ~len_fits
            THEN [called EXCEPT !.ret = "EINVAL"]
            ELSE LET counted ==
                       IF buf_idx > 0
                       THEN [called EXCEPT
                               !.buffers[buf_idx].refcount = @ + 1]
                       ELSE called
                 IN IF submit_ok
                    THEN [counted EXCEPT
                            !.inflight = @ \o io_context.sq \o <<op>>,
                            !.sq = <<>>, !.ret = "submitted"]
                    ELSE [counted EXCEPT !.sq = Append(@, op),
                                         !.ret = "EAGAIN"]
    /\ IoUnchanged

\* the kernel finishes the oldest request and posts its completion
kernel_completes ==
    /\ io_context.inflight # <<>>
    /\ io_context' = [io_context EXCEPT
                        !.inflight = Tail(@),
                        !.cq = Append(@, cqe_of(Head(io_context.inflight)))]
    /\ IoUnchanged

\* the refcounts after the loop of io_wait_completions over the cqes
RECURSIVE reap(_, _)
reap(buffers, cqes) ==
    IF cqes = <<>> THEN buffers
    ELSE LET cqe == Head(cqes)
             buf_idx == cqe.buffer_id
         IN reap(IF "IORING_CQE_F_BUFFER" \in cqe.flags
                    /\ buf_idx >= 0 /\ buf_idx < Len(buffers)
                 THEN [buffers EXCEPT ![buf_idx + 1].refcount = @ - 1]
                 ELSE buffers,
                 Tail(cqes))

\* io_wait_completions returns once min_completions are reaped: it takes
\* every completion posted by then
io_wait_completions(min_completions) ==
    /\ Len(io_context.cq) >= min_completions
    /\ io_context' = [io_context EXCEPT
                        !.buffers = reap(@, io_context.cq),
                        !.cq = <<>>,
                        !.ret = "reaped"]
    /\ IoUnchanged

\* io_unregister_buffer: io_uring_unregister_buffers drops the whole set
\* of the ring, and answers -ENXIO when the ring has none
io_unregister_buffer(buf) ==
    /\ LET idx == find_buffer_index(io_context, buf)
       IN io_context' =
            IF idx = 0 THEN [io_context EXCEPT !.ret = "ENOENT"]
            ELSE IF io_context.buffers[idx].refcount > 0
            THEN [io_context EXCEPT !.ret = "EBUSY"]
            ELSE IF ~io_context.kernel_registered
            THEN [io_context EXCEPT !.ret = "ENXIO"]
            ELSE [io_context EXCEPT
                    !.buffers = SubSeq(@, 1, idx - 1)
                                  \o SubSeq(@, idx + 1, Len(@)),
                    !.kernel_registered = FALSE,
                    !.ret = "0"]
    /\ IoUnchanged

NextIo ==
    \/ \E iovs \in IovSets : io_register_buffers(iovs)
    \/ \E buf \in Bufs, len_fits, submit_ok \in BOOLEAN :
          io_submit_read(buf, len_fits, submit_ok)
    \/ kernel_completes
    \/ \E min_completions \in 0..1 : io_wait_completions(min_completions)
    \/ \E buf \in Bufs : io_unregister_buffer(buf)

SpecIo == Init /\ [][NextIo]_vars

-----------------------------------------------------------------------------
(* The merge step of search.c alone: two workers with local result buffers *)
(* of any content reach the merge under result_mutex in either order.      *)

MaxLocal == 2
MergeWorkers == {0, 1}
MergeIds == {0, 1, 2}

LocalBuffers == UNION {[1..n -> MergeIds] : n \in 0..MaxLocal}

InitMerge ==
    /\ build \in Builds
    /\ index = qfind_init
    /\ realtime_ctx = [path_cache |-> {}, pending_adds |-> <<>>, pending_dels |-> <<>>]
    /\ main_pc = "init"
    /\ commit_pc = "idle"
    /\ commit_local = [adds |-> <<>>, dels |-> <<>>]
    /\ query = NoQuery
    /\ hist = InitHist
    /\ codec = NoCodec
    /\ twin = NoTwin
    /\ ranking = NoRanking
    /\ meta_block = NoMeta
    /\ update_thread = NoThread
    /\ io_context = NoIo
    /\ \E locals \in [MergeWorkers -> LocalBuffers], m \in 0..(MaxLocal + 2) :
          thread_data = [NoThreads EXCEPT !.local_results = locals,
                                          !.max_results = m]

\* search_worker i takes result_mutex and merges its local results
search_worker_merge(i) ==
    /\ i \notin thread_data.merged
    /\ thread_data' =
         [thread_data EXCEPT
            !.merged = @ \cup {i},
            !.results = merge_results(@, thread_data.local_results[i],
                                      thread_data.max_results)]
    /\ UNCHANGED <<build, index, realtime_ctx, main_pc, commit_pc,
                   commit_local, query, hist, codec, twin, ranking,
                   meta_block, update_thread, io_context>>

NextMerge == \E i \in MergeWorkers : search_worker_merge(i)

SpecMerge == InitMerge /\ [][NextMerge]_vars

-----------------------------------------------------------------------------
(* Allocation failures.  add_file_to_index returns -1 when realloc cannot  *)
(* grow the entries; compress_posting_lists returns -1 when a malloc       *)
(* fails, and qfind_commit_updates does not look at the value and          *)
(* returns 0.                                                              *)

\* the loop of add_file_to_index up to the first trigram that needs a new
\* entry, where realloc yields NULL
RECURSIVE add_trigrams_until_new(_, _, _)
add_trigrams_until_new(idx, trigrams, i) ==
    IF i > Len(trigrams) THEN idx
    ELSE LET t == trigrams[i]
             j == FindEntry(idx.entries, t)
             hashed == [idx EXCEPT !.bloom = ffbloom_add(@, t)]
         IN IF j = 0 THEN hashed
            ELSE add_trigrams_until_new(
                    [hashed EXCEPT !.entries[j].num_files = @ + 1],
                    trigrams, i + 1)

\* One regular file of the walk whose add_file_to_index returns -1: the
\* path is in the trie under the id, num_files is not incremented.
process_directory_add_fails(path) ==
    /\ Ready /\ main_pc = "building"
    /\ path \notin hist.walked
    /\ index.num_files < MaxFiles
    /\ \E i \in 1..Len(extract_trigrams(build, path)) :
          FindEntry(index.entries, extract_trigrams(build, path)[i]) = 0
    /\ LET id == index.num_files
           with_meta == [index EXCEPT
                            !.meta_capacity =
                                IF index.num_files >= @
                                THEN (IF @ # 0 THEN @ * 2 ELSE INITIAL_META_CAPACITY)
                                ELSE @,
                            !.file_metadata =
                                (id :> FileMeta(id, path, st_mode(path))) @@ @]
           in_trie == [with_meta EXCEPT
                            !.trie_root = insert_path_to_trie(@, path, id)]
       IN /\ index' = add_trigrams_until_new(in_trie,
                                             extract_trigrams(build, path), 1)
          /\ hist' = [hist EXCEPT !.walked = @ \cup {path},
                                  !.added = @ \cup {[path |-> path, id |-> id]}]
    /\ UNCHANGED <<build, realtime_ctx, main_pc, commit_pc, commit_local, query,
                   codec, twin, ranking, meta_block, update_thread, io_context,
                   thread_data>>

\* the second loop up to the entry whose dummy_data cannot be allocated
RECURSIVE cpl_fill_until(_, _, _)
cpl_fill_until(idx, i, failing) ==
    IF i >= failing \/ i > Len(idx.entries) THEN idx
    ELSE LET e == idx.entries[i]
             c == ZSTD_compress(e.size, Zeros(e.num_files * FILE_ID_BYTES))
         IN cpl_fill_until(
                [idx EXCEPT
                    !.compressed_data = WriteBlob(@, e.offset, c.out),
                    !.entries = [@ EXCEPT ![i].size = Len(c.out)]],
                i + 1, failing)

\* the return of qfind_commit_updates after compress_posting_lists gave up
CommitReturnsAfterFailure ==
    /\ commit_pc' = "idle"
    /\ commit_local' = [adds |-> <<>>, dels |-> <<>>]
    /\ hist' = [hist EXCEPT !.commit_failed = TRUE, !.commit_ret = 0]
    /\ UNCHANGED <<build, realtime_ctx, main_pc, query, codec, twin, ranking,
                   meta_block, update_thread, io_context, thread_data>>

\* index->compressed_data = malloc(total_size) yields NULL
CommitAllocFails ==
    /\ Ready /\ commit_pc = "laid_out"
    /\ index' = [index EXCEPT !.compressed_data = NullBlob]
    /\ CommitReturnsAfterFailure

\* malloc of dummy_data yields NULL at entry `failing`
CommitFillFails ==
    /\ Ready /\ commit_pc = "allocated"
    /\ \E failing \in 1..Len(index.entries) :
          index' = cpl_fill_until(index, 1, failing)
    /\ CommitReturnsAfterFailure

NextFail ==
    \/ BuildBegin
    \/ \E path \in Paths : process_directory(path, "EDEADLK")
    \/ \E path \in Paths : process_directory_add_fails(path)
    \/ BuildFinish
    \/ \E path \in Paths, mask \in {"create", "delete"} :
          handle_file_event(path, mask, TRUE)
    \/ CommitSwapAdds
    \/ CommitSwapDels
    \/ CommitApplyAdds("intact")
    \/ CommitApplyDels("intact")
    \/ CommitLayout
    \/ CommitAlloc
    \/ CommitFill
    \/ CommitAllocFails
    \/ CommitFillFails

SpecFail == Init /\ [][NextFail]_vars

-----------------------------------------------------------------------------
(* One posting list through the codec: appended by add_file_to_index and   *)
(* committed by compress_posting_lists of unnamed/part_001, decoded by     *)
(* search_worker of search.c.                                              *)

\* file ids grow with every add, so a list is appended in non-decreasing
\* order; a path that repeats a trigram appends its id again
PostingLists ==
    UNION {{l \in [1..n -> 0..MaxId] : \A i \in 1..(n - 1) : l[i] <= l[i + 1]} :
            n \in 0..MaxLen}

\* qsort with memcmp as comparator, on an array of ids below 256
RECURSIVE qsort_memcmp(_)
qsort_memcmp(values) ==
    IF values = <<>> THEN <<>>
    ELSE LET m == CHOOSE i \in 1..Len(values) :
                    \A j \in 1..Len(values) : values[i] <= values[j]
         IN <<values[m]>>
            \o qsort_memcmp(SubSeq(values, 1, m - 1) \o SubSeq(values, m + 1, Len(values)))

\* The first add of a trigram sets count to 1 and stores nothing, so slot 0
\* of the list holds what aligned_alloc left there: slot0 is that value.
InitCodec ==
    /\ build \in Builds
    /\ index = qfind_init
    /\ realtime_ctx = [path_cache |-> {}, pending_adds |-> <<>>, pending_dels |-> <<>>]
    /\ main_pc = "init"
    /\ commit_pc = "idle"
    /\ commit_local = [adds |-> <<>>, dels |-> <<>>]
    /\ query = NoQuery
    /\ hist = InitHist
    /\ twin = NoTwin
    /\ ranking = NoRanking
    /\ meta_block = NoMeta
    /\ update_thread = NoThread
    /\ io_context = NoIo
    /\ thread_data = NoThreads
    /\ \E raw \in PostingLists, slot0 \in 0..MaxId :
          /\ raw # <<>> => slot0 \in {raw[1], 0}
          /\ raw = <<>> => slot0 = 0
          /\ codec = [NoCodec EXCEPT
                        !.stage = "appended", !.raw = raw,
                        !.deltas = IF raw = <<>> THEN <<>>
                                   ELSE <<slot0>> \o Tail(raw)]

\* the body of the loop of compress_posting_lists for the first list
CodecCommit ==
    /\ codec.stage = "appended"
    /\ LET sorted == qsort_memcmp(codec.deltas)
           deltas == DeltaEncode(sorted)
           k == calculate_golomb_param(deltas)
           gr == golomb_encode_scalar(deltas, k)
           z == ZSTD_compress(ZSTD_compressBound(4), gr)
       IN codec' = [codec EXCEPT
                       !.stage = IF z.err THEN "error" ELSE "committed",
                       !.deltas = deltas, !.k = k, !.frame = z.out]
    /\ UNCHANGED <<build, index, realtime_ctx, main_pc, commit_pc, commit_local,
                   query, hist, twin, ranking, meta_block, update_thread,
                   io_context, thread_data>>

\* search_worker on that list: decoded is what it decodes with its fixed
\* parameter 4, decoded_k what the same loop yields with the parameter of
\* the commit; every id is below num_files
CodecDecode ==
    /\ codec.stage = "committed"
    /\ LET d == ZSTD_decompress(1048576, codec.frame)
       IN codec' = [codec EXCEPT
                       !.stage = "decoded",
                       !.decoded = IF d.err THEN <<>>
                                   ELSE FirstOccurrences(
                                          gr_decode_ids(4, d.out, 0, MaxId + 1), {}),
                       !.decoded_k = IF d.err THEN <<>>
                                     ELSE FirstOccurrences(
                                            gr_decode_ids(codec.k, d.out, 0, MaxId + 1), {})]
    /\ UNCHANGED <<build, index, realtime_ctx, main_pc, commit_pc, commit_local,
                   query, hist, twin, ranking, meta_block, update_thread,
                   io_context, thread_data>>

NextCodec == CodecCommit \/ CodecDecode

SpecCodec == InitCodec /\ [][NextCodec]_vars

-----------------------------------------------------------------------------
(* Two indexes given the same add_file_to_index calls, except that the     *)
(* calls in `doubled` are made twice on the second; then both commit.      *)

\* "ab", "abc", "bcd", "abcd"
TwinPaths ==
    {<<97, 98>>, <<97, 98, 99>>, <<98, 99, 100>>, <<97, 98, 99, 100>>}

InitTwin ==
    /\ build \in Builds
    /\ index = qfind_init
    /\ realtime_ctx = [path_cache |-> {}, pending_adds |-> <<>>, pending_dels |-> <<>>]
    /\ main_pc = "init"
    /\ commit_pc = "idle"
    /\ commit_local = [adds |-> <<>>, dels |-> <<>>]
    /\ query = NoQuery
    /\ hist = InitHist
    /\ codec = NoCodec
    /\ twin = [NoTwin EXCEPT !.stage = "adding"]
    /\ ranking = NoRanking
    /\ meta_block = NoMeta
    /\ update_thread = NoThread
    /\ io_context = NoIo
    /\ thread_data = NoThreads

TwinAdd(path, again) ==
    /\ twin.stage = "adding"
    /\ Cardinality(twin.log) < MaxAdds
    /\ LET id == Cardinality(twin.log)
           once == add_file_to_index(build, twin.once, path, id)
           twice == add_file_to_index(build, twin.twice, path, id)
       IN twin' = [twin EXCEPT
                     !.once = once,
                     !.twice = IF again
                               THEN add_file_to_index(build, twice, path, id)
                               ELSE twice,
                     !.log = @ \cup {[path |-> path, id |-> id]},
                     !.doubled = IF again THEN @ \cup {id} ELSE @]
    /\ UNCHANGED <<build, index, realtime_ctx, main_pc, commit_pc, commit_local,
                   query, hist, codec, ranking, meta_block, update_thread,
                   io_context, thread_data>>

TwinCommit ==
    /\ twin.stage = "adding"
    /\ twin' = [twin EXCEPT !.stage = "committed",
                            !.once = compress_posting_lists(@),
                            !.twice = compress_posting_lists(@)]
    /\ UNCHANGED <<build, index, realtime_ctx, main_pc, commit_pc, commit_local,
                   query, hist, codec, ranking, meta_block, update_thread,
                   io_context, thread_data>>

NextTwin ==
    \/ \E path \in TwinPaths, again \in BOOLEAN : TwinAdd(path, again)
    \/ TwinCommit

SpecTwin == InitTwin /\ [][NextTwin]_vars

-----------------------------------------------------------------------------
(* Short queries on the committed index of the pair: a query of length 1   *)
(* or 2 has no trigram, so qfind_search hands it to search_trie.            *)

\* "ab", "b", "ac" and the empty string
ShortQueries == {<<97, 98>>, <<98>>, <<97, 99>>, <<>>}

ShortQuery(q, u, max_results, hz) ==
    /\ twin.stage = "committed"
    /\ query.status = "none"
    /\ LET r == IF build.search = "qfind.c"
                THEN qfind_c_qfind_search(build, twin.once, q, u.user_id,
                                          u.group_id, max_results, hz)
                ELSE search_c_qfind_search(build, twin.once, q, u.user_id,
                                           u.group_id, max_results, hz, <<0>>)
       IN query' = QueryOf(q, u, max_results, hz, r)
    /\ UNCHANGED <<build, index, realtime_ctx, main_pc, commit_pc, commit_local,
                   hist, codec, twin, ranking, meta_block, update_thread,
                   io_context, thread_data>>

NextTrie ==
    \/ \E path \in TwinPaths, again \in BOOLEAN : TwinAdd(path, again)
    \/ TwinCommit
    \/ \E q \in ShortQueries, u \in Users, m \in {1, MaxAdds}, hz \in Hazards :
          ShortQuery(q, u, m, hz)
    \/ QueryDone

SpecTrie == InitTwin /\ [][NextTrie]_vars

-----------------------------------------------------------------------------
(* The ranking at the end of qfind_search of qfind.c: qsort of the scored  *)
(* candidates with compare_scores, then the first MIN(scored_count,        *)
(* max_results) ids.  A score is held in hundredths.                       *)

\* scores the scoring loop lets through (score >= SCORE_THRESHOLD)
Scores == {s \in {10, 25, 75, 180} : s >= SCORE_THRESHOLD}

\* the arrays the scoring loop can leave: distinct file ids with a score
ScoredArrays ==
    UNION {{a \in [1..n -> [file_id : 0..(MaxScored - 1), score : Scores]] :
                \A i, j \in 1..n : i # j => a[i].file_id # a[j].file_id} :
           n \in 0..MaxScored}

\* (int)x of a float x given in hundredths: the fraction is dropped
FloatToInt(x) == IF x >= 0 THEN x \div 100 ELSE -((-x) \div 100)

\* return b->score - a->score; the float difference is converted to int
compare_scores(a, b) == FloatToInt(b.score - a.score)

\* the orders qsort with compare_scores can leave an array in: no element
\* stands behind one that the comparator puts after it
QsortOutcomes(base) ==
    {out \in [1..Len(base) -> Range(base)] :
        /\ Range(out) = Range(base)
        /\ \A i, j \in 1..Len(out) : i < j => compare_scores(out[i], out[j]) <= 0}

InitRank ==
    /\ build \in Builds
    /\ index = qfind_init
    /\ realtime_ctx = [path_cache |-> {}, pending_adds |-> <<>>, pending_dels |-> <<>>]
    /\ main_pc = "init"
    /\ commit_pc = "idle"
    /\ commit_local = [adds |-> <<>>, dels |-> <<>>]
    /\ query = NoQuery
    /\ hist = InitHist
    /\ codec = NoCodec
    /\ twin = NoTwin
    /\ meta_block = NoMeta
    /\ update_thread = NoThread
    /\ io_context = NoIo
    /\ thread_data = NoThreads
    /\ \E a \in ScoredArrays, m \in 1..MaxScored :
          ranking = [NoRanking EXCEPT !.stage = "scored", !.scored_results = a,
                                      !.max_results = m]

\* qsort(scored_results, ...); num_results = MIN(..); the copy of the ids
RankResults ==
    /\ ranking.stage = "scored"
    /\ \E sorted \in QsortOutcomes(ranking.scored_results) :
          LET num_results == Min(Len(sorted), ranking.max_results)
          IN ranking' = [ranking EXCEPT
                            !.stage = "ranked",
                            !.scored_results = sorted,
                            !.num_results = num_results,
                            !.results = [i \in 1..num_results |-> sorted[i].file_id]]
    /\ UNCHANGED <<build, index, realtime_ctx, main_pc, commit_pc, commit_local,
                   query, hist, codec, twin, meta_block, update_thread,
                   io_context, thread_data>>

NextRank == RankResults

SpecRank == InitRank /\ [][NextRank]_vars

-----------------------------------------------------------------------------
(* Trigram queries on the index of the initial build: the Bloom pre-check  *)
(* and the posting lists behind it.                                        *)

\* "bcd" and "bcde"
TrigramQueries == {<<98, 99, 100>>, <<98, 99, 100, 101>>}

NextResolve ==
    \/ BuildBegin
    \/ \E path \in Paths : process_directory(path, "EDEADLK")
    \/ BuildFinish
    \/ \E q \in TrigramQueries, u \in Users, m \in MaxResultsValues, hz \in Hazards :
          SearchQ(q, u, m, hz)
    \/ \E q \in TrigramQueries, u \in Users, m \in MaxResultsValues, hz \in Hazards,
          order \in Schedules :
          SearchS(q, u, m, hz, order)
    \/ QueryDone

SpecResolve == Init /\ [][NextResolve]_vars

-----------------------------------------------------------------------------
(* Properties.  A search is one step and every other action waits for      *)
(* QueryDone, so in a state where query.status is not "none" the variables *)
(* index and hist are those the search ran on (the search itself only      *)
(* touches the secondary Bloom filter).                                    *)
(*                                                                         *)
(* hist records: added, committed - the (path, id) pairs handed to         *)
(* add_file_to_index and those whose commit or build has completed;        *)
(* pending - ids enqueued by a create event for a path not in the metadata *)
(* table, until the commit that took them returns; del_waiting, del_mark,  *)
(* tombstoned - ids whose path got a delete event, those a running commit  *)
(* started after, and those whose commit has returned; sealed - entries    *)
(* and blob at the last completed build or commit; visible - what every    *)
(* query returned on the index of a completed build or commit;             *)
(* commit_failed - an allocation failed in the last commit; commit_ret -   *)
(* the value qfind_commit_updates returned; enqueued, applied, reapplied - *)
(* the add nodes appended to pending_adds, those a commit handed to        *)
(* add_file_to_index, and those handed to it a second time;                *)
(* dels_enqueued, dels_applied - how many delete nodes were appended to    *)
(* pending_dels and how many the loop over dels has gone through.          *)

ResultIds == Range(query.results)

\* the trigrams of a string: its windows of three consecutive bytes
WindowTrigrams(s) == Range(extract_trigrams_window(s))

Substrings(p) ==
    {SubSeq(p, i, j) : i \in 1..Len(p), j \in 1..Len(p)} \ {<<>>}

DeleteSeen == hist.del_waiting \cup hist.del_mark \cup hist.tombstoned

\* A search made once qfind_build_index has returned and that ran into no
\* undefined read: the properties below are stated for these searches, so
\* that a violation shows the defined behaviour of the code.
Searched == query.status # "none" /\ query.hz = NoHazard /\ main_pc = "built"

Answered == Searched /\ query.status = "returned"

\* C1: a search whose query string equals a path of length >= 3 that was
\* added with id i and committed (and not deleted since), issued with
\* max_results >= 1 by a caller who passes the permission check of that
\* file, returns normally with i in its result set.
C1_CommittedPathIsFound ==
    \A a \in hist.committed :
        ( /\ Searched
          /\ query.query = a.path
          /\ Len(a.path) >= 3
          /\ query.max_results >= 1
          /\ a.id \notin DeleteSeen
          /\ a.id \in DOMAIN index.file_metadata
          /\ index.file_metadata[a.id].path = a.path
          /\ check_file_permission(index.file_metadata[a.id],
                                   query.user_id, query.group_id) )
        => (query.status = "returned" /\ a.id \in ResultIds)

\* C2: no search, by trigrams or by the trie, returns an id whose FileMeta
\* fails check_file_permission for the uid and gid of the query.
C2_PermissionFilter ==
    Answered =>
        \A id \in ResultIds :
            id \in DOMAIN index.file_metadata =>
                check_file_permission(index.file_metadata[id],
                                      query.user_id, query.group_id)

\* C3: every id returned for a query of length >= 3 is the id of a file
\* whose path contains every trigram of the query.
C3_NoSpuriousIds ==
    (Answered /\ Len(query.query) >= 3) =>
        \A id \in ResultIds :
            /\ id \in DOMAIN index.file_metadata
            /\ WindowTrigrams(query.query) \subseteq
                    WindowTrigrams(index.file_metadata[id].path)

\* C4: between the enqueue of an add for a new path and the return of the
\* next qfind_commit_updates, no search returns the id given to that add.
C4_PendingAddInvisible ==
    Answered => ResultIds \cap hist.pending = {}

\* C5: once a delete event for an indexed path has been followed by a
\* commit that returned, no search returns the id of that path.
C5_DeletedNeverReturned ==
    Answered => ResultIds \cap hist.tombstoned = {}

\* the search went as far as reading a directory entry and its blob slice
ReadsPostings ==
    LET trigrams == extract_trigrams(build, query.query)
        pre == bloom_precheck(build, index.bloom, trigrams, 1,
                              build.search = "search.c")
    IN /\ trigrams # <<>>
       /\ pre.pass
       /\ IF build.search = "search.c"
          THEN \E i \in 1..Len(index.entries) :
                  index.entries[i].trigram \in Range(trigrams)
          ELSE /\ query.max_results # 0
               /\ \E c \in Range(ffbloom_get_candidates(pre.bloom, trigrams)) :
                     FindEntry(index.entries, c) # 0

\* entries and blob are neither those of the last completed commit nor
\* those a completed commit of the present lists leaves
Torn ==
    /\ View(index) # hist.sealed
    /\ View(index) # View(compress_posting_lists(index))

\* C6: a search running beside add events and qfind_commit_updates works
\* on the entries and blob of the last completed commit or on those of a
\* completed newer one, never on a mixture, and every id it returns
\* resolves to a FileMeta that is not tombstoned.
C6_ConsistentSnapshot ==
    /\ (Searched /\ ReadsPostings) => ~Torn
    /\ Answered =>
          \A id \in ResultIds :
              /\ id \in DOMAIN index.file_metadata
              /\ index.file_metadata[id].path # <<>>

\* C7: an id that a completed commit made visible to a query, and whose
\* path got no delete event since, is returned by every later search of
\* the same query by the same user, whatever was added and committed since.
C7_MonotonicVisibility ==
    (Answered /\ query.max_results >= MaxFiles) =>
        \A v \in hist.visible :
            ( /\ v.query = query.query
              /\ v.user_id = query.user_id
              /\ v.id \notin DeleteSeen )
            => v.id \in ResultIds

\* C8: after any sequence of add_file_to_index calls, ffbloom_check is true
\* for every trigram of every added path, and the Bloom pre-filter of
\* qfind_search rejects no substring of length >= 3 of an added path.
C8_NoFalseNegatives ==
    \A a \in twin.log :
        /\ \A t \in WindowTrigrams(a.path) : ffbloom_check(twin.once.bloom, t)
        /\ \A q \in Substrings(a.path) :
              Len(q) >= 3 =>
                  bloom_precheck(build, twin.once.bloom,
                                 extract_trigrams(build, q), 1, FALSE).pass

\* C9: decoding a committed posting list (entropy-decode, Golomb-Rice
\* decode with the parameter of the commit, prefix sum) yields exactly the
\* sorted list, without duplicates, of the file ids appended before commit.
\* Stated for the lists whose first slot came out as the id first appended.
C9_RoundTrip ==
    ( /\ codec.stage = "decoded"
      /\ codec.deltas = DeltaEncode(qsort_memcmp(codec.raw)) )
    => codec.decoded_k = Ascending(Range(codec.raw))

\* C10: adding the same (path, id) twice before commit leaves, after
\* commit, the same directory entries (file count, offset, size) and the
\* same blob as adding it once.
C10_Idempotence ==
    (twin.stage = "committed" /\ twin.doubled # {}) =>
        View(twin.once) = View(twin.twice)

\* q occurs in p as a run of consecutive bytes
Contains(p, q) == q \in Substrings(p)

\* C11: a query of length 1 or 2 is answered by qfind_search of qfind.c
\* from the trie with the id of every indexed path that contains the query
\* literal (all of them when max_results is not smaller than their number).
C11_ShortQueryFindsSubstrings ==
    ( /\ twin.stage = "committed"
      /\ build.search = "qfind.c"
      /\ query.status # "none"
      /\ query.hz = NoHazard
      /\ Len(query.query) \in 1..2
      /\ query.max_results >= MaxAdds )
    => /\ query.status = "returned"
       /\ ResultIds = {a.id : a \in {x \in twin.log : Contains(x.path, query.query)}}

\* what the search held in `query` finds on the index when max_results is
\* large enough for every file
Uncapped ==
    IF build.search = "qfind.c"
    THEN qfind_c_qfind_search(build, index, query.query, query.user_id,
                              query.group_id, MaxFiles, query.hz)
    ELSE search_c_qfind_search(build, index, query.query, query.user_id,
                               query.group_id, MaxFiles, query.hz, <<0>>)

Building ==
    \/ commit_pc # "idle"
    \/ realtime_ctx.pending_adds # <<>>
    \/ realtime_ctx.pending_dels # <<>>

\* C13: no search returns results while the index is Building; a query
\* issued in that state is answered only once the commit has completed.
C13_NoAnswerWhileBuilding ==
    (Answered /\ query.results # <<>>) => ~Building

\* the sealed entries keep their offset and size and the blob is the one
\* that was sealed
SealedIntact ==
    /\ Len(index.entries) >= Len(hist.sealed.entries)
    /\ \A i \in 1..Len(hist.sealed.entries) :
          /\ index.entries[i].offset = hist.sealed.entries[i].offset
          /\ index.entries[i].size = hist.sealed.entries[i].size
    /\ index.compressed_data = hist.sealed.compressed_data

\* C14: when an allocation or compression step fails during a commit over
\* a sealed index with posting lists, the commit reports an error and the
\* previously sealed state (offset and size of the entries, the blob and
\* its contents) is intact.
C14_FailedCommitKeepsSealed ==
    (hist.commit_failed /\ hist.sealed.entries # <<>>)
        => (hist.commit_ret # 0 /\ SealedIntact)

\* the (path, id) pairs of every add so far: those handed to
\* add_file_to_index and those enqueued by a create event
AssignedIds ==
    hist.added \cup Range(realtime_ctx.pending_adds) \cup Range(commit_local.adds)

\* C15: no two adds are given the same FileId, whether the id comes from
\* process_directory (also after an add_file_to_index that failed) or from
\* a create event.
C15_DistinctFileIds ==
    \A a, b \in AssignedIds : a.id = b.id => a.path = b.path

\* C16: qfind_search answers the empty query string with the error
\* InvalidArgument (a negative return value), not with a result.
C16_EmptyQueryRejected ==
    (query.status # "none" /\ query.query = <<>>)
        => (query.status = "returned" /\ query.ret < 0)

\* the trigrams of the query held in `query`
QueryTrigrams == extract_trigrams(build, query.query)

\* one of them has a bit that is not set in the primary filter
BloomMiss ==
    \E i \in 1..Len(QueryTrigrams) :
        ~(PrimaryBitsOf(index.bloom, QueryTrigrams[i]) \subseteq index.bloom.primary)

ScoreOf(id) ==
    (CHOOSE r \in Range(ranking.scored_results) : r.file_id = id).score

UnknownToCache(path) == \A c \in realtime_ctx.path_cache : c.path # path

C20_BuildDoesNotRelock ==
    /\ main_pc # "deadlocked"
    /\ main_pc = "built" => index.index_lock = "unlocked"

\* the nodes of a batch all differ
Distinct(batch) ==
    \A i, j \in 1..Len(batch) : batch[i] = batch[j] => i = j

\* delete nodes a running commit has taken and not gone through yet
DelsInHand ==
    IF commit_pc \in {"swapped", "adds_applied"}
    THEN Len(commit_local.dels) ELSE 0

C22_HitFeedsSecondary ==
    (/\ query.status # "none" /\ query.max_results # 0 /\ main_pc = "built"
     /\ build.search = "qfind.c" /\ build.bloom = "ffbloom.c"
     /\ QueryTrigrams # <<>> /\ ~BloomMiss)
        => /\ \A i \in 1..Len(QueryTrigrams) :
                  SecondaryBitsOf(index.bloom, QueryTrigrams[i])
                      \subseteq index.bloom.secondary
           /\ ffbloom_get_candidates(index.bloom, QueryTrigrams) = QueryTrigrams

\* C23: no call of ffbloom_add, ffbloom_check, ffbloom_update_secondary or
\* ffbloom_get_candidates resets a bit: every bit that is 1 in the primary
\* or in the secondary array before the call is 1 after it.
C23_BloomAppendOnly ==
    [][/\ index.bloom.primary \subseteq index'.bloom.primary
       /\ index.bloom.secondary \subseteq index'.bloom.secondary]_vars

\* both arrays hold the bits of more than one item
C23_BitsOfSeveralItems ==
    \E a, b \in BloomItems :
        /\ PrimaryBitsOf(index.bloom, a) # PrimaryBitsOf(index.bloom, b)
        /\ SecondaryBitsOf(index.bloom, a) # SecondaryBitsOf(index.bloom, b)
        /\ PrimaryBitsOf(index.bloom, a) \cup PrimaryBitsOf(index.bloom, b)
               \subseteq index.bloom.primary
        /\ SecondaryBitsOf(index.bloom, a) \cup SecondaryBitsOf(index.bloom, b)
               \subseteq index.bloom.secondary

\* C24: a query traverses the trie and reads the Bloom pair with the index
\* lock held in read mode, so no search comes back with results while
\* another thread holds the lock for writing.
C24_QueryReadsUnderLock ==
    (query.status = "returned" /\ query.results # <<>>)
        => index.index_lock # "held"

\* the node insert_path_to_trie marks as the end of `path`
EndNodeOf(path) ==
    LET t == insert_path_to_trie(EmptyTrie, path, 0)
    IN CHOOSE n \in DOMAIN t : t[n].is_end

\* what a walk from the root to `node` reads on its way: key and count of
\* every node after the root
EdgeLabels(trie, node) ==
    [i \in 1..Len(node) |->
        [key |-> trie[SubSeq(node, 1, i)].key,
         count |-> trie[SubSeq(node, 1, i)].count]]

\* the labels of `path` in a trie that holds nothing else
LabelsAlone(path) ==
    EdgeLabels(insert_path_to_trie(EmptyTrie, path, 0), EndNodeOf(path))

\* C25: the labelled edges from the root to the end node of an inserted
\* path give back the bytes of that path and of no other: no different file
\* name, with runs of equal bytes or the byte 0xFF, is spelled by the same
\* labels.
C25_WalkSpellsPath ==
    \A a \in hist.added : \A other \in RunPaths :
        LabelsAlone(other) = EdgeLabels(index.trie_root, EndNodeOf(a.path))
            => other = a.path

\* C26: the end node of every inserted path carries the id the path was
\* inserted with, and the run counts on the way to it are those of the
\* path, whatever was inserted after it.
C26_EndNodeKeepsId ==
    \A a \in hist.added :
        /\ index.trie_root[EndNodeOf(a.path)].file_id = a.id
        /\ EdgeLabels(index.trie_root, EndNodeOf(a.path)) = LabelsAlone(a.path)

\* the ids a list of deltas stands for: prev += delta for each of them
RECURSIVE IdsOfDeltas(_, _)
IdsOfDeltas(deltas, prev) ==
    IF deltas = <<>> THEN <<>>
    ELSE <<prev + deltas[1]>> \o IdsOfDeltas(Tail(deltas), prev + deltas[1])

\* C27: the posting list compress_posting_lists has committed holds its
\* file ids in strictly ascending order: sorted, and no id twice.
C27_StrictlyAscending ==
    codec.stage = "committed" =>
        LET ids == IdsOfDeltas(codec.deltas, 0)
        IN \A i \in 1..(Len(ids) - 1) : ids[i] < ids[i + 1]

\* the ids of the files added with a path that holds trigram t
IdsWithTrigram(log, t) ==
    {l.id : l \in {x \in log : t \in WindowTrigrams(x.path)}}

\* C28: after commit the num_files of every trigram entry is the number
\* of distinct file ids added with that trigram, also when a file was
\* added more than once.
C28_NumFilesCountsDistinctIds ==
    twin.stage = "committed" =>
        \A i \in 1..Len(twin.twice.entries) :
            twin.twice.entries[i].num_files =
                Cardinality(IdsWithTrigram(twin.log, twin.twice.entries[i].trigram))

\* the file ids ZSTD_decompress yields for entry e, eight bytes each, as the
\* loop of process_posting_list reads them
DecodedFileIds(idx, e) ==
    LET slice == EntrySlice(idx, e)
        d == ZSTD_decompress(e.num_files * FILE_ID_BYTES, slice.bytes)
    IN IF slice.fault \/ ~slice.init \/ d.err THEN <<>>
       ELSE [i \in 1..(Len(d.out) \div FILE_ID_BYTES) |->
                BytesToId(SubSeq(d.out, (i - 1) * FILE_ID_BYTES + 1,
                                 i * FILE_ID_BYTES))]

\* C29: once the build or a commit has returned, every file id decoded
\* from a posting list is below num_files, names the FileMeta record with
\* that id, and is the id of a file that was added with a path holding the
\* trigram of the list.
C29_DecodedIdsHoldTrigram ==
    (main_pc = "built" /\ commit_pc = "idle") =>
        \A i \in 1..Len(index.entries) :
            \A id \in Range(DecodedFileIds(index, index.entries[i])) :
                /\ id < index.num_files
                /\ id \in DOMAIN index.file_metadata
                /\ index.file_metadata[id].id = id
                /\ \E a \in hist.added :
                      /\ a.id = id
                      /\ index.entries[i].trigram \in WindowTrigrams(a.path)

\* C30: the FileMeta record a create event writes lies inside the block
\* file_metadata points to: its index is below the number of records the
\* block holds at the write, for every size of the initial build.
C30_EventWritesInsideBlock ==
    meta_block.events > 0 => meta_block.written < meta_block.room

\* the worker exists and has neither returned nor died
WorkerRuns ==
    /\ update_thread.pc \in {"test", "poll", "events", "check", "swap",
                             "apply"}
    /\ ProcessAlive(update_thread)

C32_EveryUpdateCommitted ==
    (WorkerRuns /\ update_thread.adds + update_thread.dels > 0)
      ~> (~WorkerRuns \/ update_thread.adds + update_thread.dels = 0)

\* C33: a stop_realtime_updates that init_realtime_updates calls before
\* the thread is created gets past its join
C33_StopReturnsWithoutThread ==
    (update_thread.init_pc = "watch_failed" /\ ~update_thread.created)
      => update_thread.stop_pc # "SIGSEGV"

\* C34: the drain of a swapped-out batch reads no node it has freed, and
\* once the loop over the adds is left every node of the batch in hand
\* has been visited
C34_DrainVisitsEveryNode ==
    commit_pc \notin {"idle", "adds_swapped", "swapped"}
        => Range(commit_local.adds) \subseteq hist.applied

\* C35: the path->id cache holds at most one entry per path, so that the
\* delete event of a path, which removes one entry, leaves none behind
C35_OneCacheEntryPerPath ==
    \A c1, c2 \in realtime_ctx.path_cache : c1.path = c2.path => c1 = c2

\* C36: the workers of a search write only their own buffers and the
\* query's result buffer, so the index is as it was before they started:
\* every slot seen[file_id] a worker sets lies inside the num_files bytes
\* it allocated for seen
C36_WorkersWriteOwnBuffers ==
    [][\A q \in TrigramQueries, u \in Users, m \in MaxResultsValues,
          hz \in Hazards, order \in Schedules :
          SearchS(q, u, m, hz, order) =>
              \A id \in search_workers_seen(build, index, q, u.user_id,
                                            u.group_id, hz, order) :
                  SeenInBounds(id, index.num_files)]_vars

\* the ids in the local buffers of all workers
LocalIds ==
    UNION {Range(thread_data.local_results[i]) : i \in MergeWorkers}

\* C37: whatever the order in which the workers reach the merge, the final
\* result holds no id twice, and when the local buffers hold at most
\* max_results distinct ids it is, as a set, their union
C37_MergeIsUnion ==
    thread_data.merged = MergeWorkers =>
        /\ \A i, j \in 1..Len(thread_data.results) :
              thread_data.results[i] = thread_data.results[j] => i = j
        /\ Cardinality(LocalIds) <= thread_data.max_results
              => Range(thread_data.results) = LocalIds

\* both workers have merged, worker 1 first, buffers that share an id and
\* whose distinct ids just fit into max_results
C37_SharedIdMerged ==
    /\ thread_data.merged = MergeWorkers
    /\ thread_data.local_results[0] = <<0, 1>>
    /\ thread_data.local_results[1] = <<1, 2>>
    /\ thread_data.max_results = 3
    /\ thread_data.results = <<1, 2, 0>>

\* C38: for a string of n >= 3 bytes extract_trigrams yields n - 2 tokens,
\* the i-th being the bytes s[i..i+3) in order of position, duplicates
\* kept, and for n < 3 it yields none.  Stated for the paths handed to
\* add_file_to_index.
C38_OneTokenPerWindow ==
    \A a \in twin.log :
        LET tokens == extract_trigrams(build, a.path)
            n == Len(a.path)
        IN IF n < TRIGRAM_SIZE THEN tokens = <<>>
           ELSE /\ Len(tokens) = n - 2
                /\ \A i \in 1..(n - 2) :
                      tokens[i] = PackTrigram(a.path[i], a.path[i + 1],
                                              a.path[i + 2])

\* C39: the refcount of every registered buffer is the number of fixed
\* requests submitted on it whose completions have not been reaped, so it
\* is 0 once io_wait_completions has reaped them all
C39_RefcountCountsUnreaped ==
    \A i \in DOMAIN io_context.buffers :
        io_context.buffers[i].refcount =
            Len(SelectSeq(Unreaped(io_context), LAMBDA op :
                    op.fixed /\ op.buf = io_context.buffers[i].buf))

====
